---- MODULE Spec2Model ----
(***************************************************************************)
(* Model of the asteroid-impact core of backend/: the trajectory           *)
(* propagator, hazard corridor simulator, deflection model                 *)
(* (physics_service.py), the consequence predictor and mission             *)
(* recommender (ml_service.py), the body resolver (horizons_service.py,    *)
(* sample_data.py) and the analysis endpoint (app.py).                     *)
(*                                                                         *)
(* Every public function is one action: it draws its arguments and the     *)
(* outcomes of the library calls it makes (poliastro, numpy.random), and   *)
(* leaves the arguments, the returned value and what it did in             *)
(* op / args / ret / obs.  Return hands the value to the caller and frees  *)
(* the frame; Tick advances the wall clock read by Time.now() and          *)
(* datetime.now().                                                         *)
(***************************************************************************)
EXTENDS Integers, Sequences, FiniteSets, TLC

VARIABLES pc, now, op, args, ret, obs, MISSION_PLANNER_MODEL, apophis_data, sample_asteroids, calls

\* Module-level state: the classifier of ml_service.py and the reference
\* tables of sample_data.py.  calls holds the get_asteroid_data calls that
\* run side by side, one per request thread.
globals == <<MISSION_PLANNER_MODEL, apophis_data, sample_asteroids>>

vars == <<pc, now, op, args, ret, obs, globals, calls>>

(***************************************************************************)
(* Bounds of the model.                                                    *)
(***************************************************************************)
MaxTime == 1
MaxSims == 3
MaxThreads == 2

(***************************************************************************)
(* Numbers.  A float is a component <<kind, n, d>>: a finite value n/d     *)
(* (d > 0, lowest terms), NaN, an infinity, or a non-numeric Python value  *)
(* (a string) that numpy cannot convert.                                   *)
(***************************************************************************)
RECURSIVE GCD(_, _)
GCD(a, b) == IF b = 0 THEN a ELSE GCD(b, a % b)

Abs(x) == IF x < 0 THEN -x ELSE x

Rat(n, d) ==
  LET g == GCD(Abs(n), Abs(d))
      s == IF d < 0 THEN -1 ELSE 1
  IN  <<"fin", (s * n) \div g, (s * d) \div g>>

Fin(n) == <<"fin", n, 1>>
NaN == <<"nan", 0, 1>>
Inf == <<"inf", 1, 1>>
Str == <<"str", 0, 1>>

IsFinite(x) == x[1] = "fin"
IsNumber(x) == x[1] # "str"

\* IEEE arithmetic on components (numpy float64 without rounding).
FAdd(x, y) ==
  IF x[1] = "nan" \/ y[1] = "nan" THEN NaN
  ELSE IF x[1] = "inf" /\ y[1] = "inf" THEN (IF x[2] = y[2] THEN x ELSE NaN)
  ELSE IF x[1] = "inf" THEN x
  ELSE IF y[1] = "inf" THEN y
  ELSE LET g == GCD(x[3], y[3])
       IN  Rat(x[2] * (y[3] \div g) + y[2] * (x[3] \div g), (x[3] \div g) * y[3])

Sign(n) == IF n < 0 THEN -1 ELSE IF n > 0 THEN 1 ELSE 0

FMul(x, y) ==
  IF x[1] = "nan" \/ y[1] = "nan" THEN NaN
  ELSE IF x[1] = "inf" \/ y[1] = "inf"
       THEN (IF x[2] = 0 \/ y[2] = 0 THEN NaN
             ELSE <<"inf", Sign(x[2]) * Sign(y[2]), 1>>)
  ELSE Rat(x[2] * y[2], x[3] * y[3])

FNeg(x) == IF IsFinite(x) \/ x[1] = "inf" THEN <<x[1], -x[2], x[3]>> ELSE x

\* numpy division of float64 values: a zero divisor gives inf or nan, no exception.
FDiv(x, y) ==
  IF x[1] = "nan" \/ y[1] = "nan" THEN NaN
  ELSE IF x[1] = "inf" /\ y[1] = "inf" THEN NaN
  ELSE IF x[1] = "inf" THEN <<"inf", Sign(x[2]) * (IF y[2] < 0 THEN -1 ELSE 1), 1>>
  ELSE IF y[1] = "inf" THEN Fin(0)
  ELSE IF y[2] = 0 THEN (IF x[2] = 0 THEN NaN ELSE <<"inf", Sign(x[2]), 1>>)
  ELSE Rat(x[2] * y[3], x[3] * y[2])

(***************************************************************************)
(* State vectors as the caller passes them: None, or a list of components. *)
(***************************************************************************)
NoneVec == [none |-> TRUE, c |-> <<>>]
Vec(s) == [none |-> FALSE, c |-> s]

FinVec(s) == Vec([i \in 1..Len(s) |-> Fin(s[i])])

Nominal == FinVec(<<150000000, 0, 0, 0, 30, 0>>)
Oblique == FinVec(<<150000000, 0, 0, 3, 4, 0>>)
AtRest == FinVec(<<150000000, 0, 0, 0, 0, 0>>)
NaNVec == Vec(<<NaN, Fin(0), Fin(0), Fin(0), Fin(30), Fin(0)>>)
InfVec == Vec(<<Fin(150000000), Fin(0), Fin(0), Fin(0), Inf, Fin(0)>>)
StrVec == Vec(<<Str, Str, Str, Str, Str, Str>>)

FiniteVectors == {Nominal, Oblique, AtRest}
SixVectors == FiniteVectors \cup {NaNVec, InfVec, StrVec}
StateVectors ==
  SixVectors \cup {NoneVec, Vec(<<>>), FinVec(<<1, 2, 3>>), FinVec(<<1, 2, 3, 4, 5, 6, 7>>)}

AllFinite(sv) == \A i \in 1..Len(sv.c) : IsFinite(sv.c[i])
AllNumbers(sv) == \A i \in 1..Len(sv.c) : IsNumber(sv.c[i])

Horizons == {0, 120, 180, 365}

(***************************************************************************)
(* Outcomes of the poliastro calls of one calculate_real_trajectory call:  *)
(* whether Orbit.from_vectors returns, the first sample whose              *)
(* orbit.propagate raises (NoFailure: none does), and whether the          *)
(* analytical fallback completes.                                          *)
(***************************************************************************)
NumPoints == 20
FallbackPoints == 30
MinimalPoints == 20
NoFailure == NumPoints

FailSamples == {0, 5, 6}

LibOutcomes ==
  {[orbit |-> FALSE, failAt |-> NoFailure, analytic |-> TRUE],
   [orbit |-> TRUE, failAt |-> NoFailure, analytic |-> TRUE]}
  \cup [orbit : {TRUE}, failAt : FailSamples, analytic : BOOLEAN]

(***************************************************************************)
(* Trajectories: sequences of points, each point a list of coordinates.    *)
(* A coordinate is the float the code computes, named by what it is        *)
(* computed from: the tier, the axis, the sample and the tier's inputs.    *)
(***************************************************************************)
Point(tier, i, key) == <<<<tier, 0, i, key>>, <<tier, 1, i, key>>, <<tier, 2, i, key>>>>

\* physics_service.py:75-83: position of the orbit at Time.now() + linspace(0, days, 20)[i]
PropagatedPoint(sv, days, epoch, i) == Point("propagated", i, <<sv.c, days, epoch>>)

\* physics_service.py:99-119
calculate_analytical_trajectory(sv, days, from, ok) ==
  IF ok
  THEN [j \in 1..(NumPoints - from) |-> Point("analytical", from + j - 1, <<sv.c, days>>)]
  ELSE <<>>

\* physics_service.py:121-160
generate_optimized_fallback(sv) ==
  IF sv.none \/ Len(sv.c) # 6 THEN <<>>
  ELSE IF AllNumbers(sv)
       THEN [j \in 1..FallbackPoints |-> Point("optimized", j - 1, <<sv.c>>)]
       ELSE [j \in 1..MinimalPoints |-> Point("minimal", j - 1, <<>>)]

\* The length test of line 53 written as "fewer than 6".
calculate_real_trajectory_ShortOnly(sv, days, epoch, lib) ==
  IF sv.none \/ Len(sv.c) < 6 THEN <<>>
  ELSE IF ~AllNumbers(sv) \/ ~lib.orbit THEN generate_optimized_fallback(sv)
  ELSE IF lib.failAt = NoFailure
       THEN [j \in 1..NumPoints |-> PropagatedPoint(sv, days, epoch, j - 1)]
       ELSE [j \in 1..lib.failAt |-> PropagatedPoint(sv, days, epoch, j - 1)]
            \o calculate_analytical_trajectory(sv, days, lib.failAt, lib.analytic)

\* physics_service.py:49-97
calculate_real_trajectory(sv, days, epoch, lib) ==
  IF sv.none \/ Len(sv.c) # 6 THEN <<>>
  ELSE IF ~AllNumbers(sv) \/ ~lib.orbit THEN generate_optimized_fallback(sv)
  ELSE IF lib.failAt = NoFailure
       THEN [j \in 1..NumPoints |-> PropagatedPoint(sv, days, epoch, j - 1)]
       ELSE [j \in 1..lib.failAt |-> PropagatedPoint(sv, days, epoch, j - 1)]
            \o calculate_analytical_trajectory(sv, days, lib.failAt, lib.analytic)

(***************************************************************************)
(* Hazard corridor (physics_service.py:173-207).  Each run draws its       *)
(* Gaussian perturbation and the outcomes of its poliastro calls.          *)
(***************************************************************************)
NominalDays == 180
PerturbedDays == 120
DefaultDays == 365
MinSamples == 5

\* Samples of np.random.normal: three position offsets (km), three velocity offsets (km/s).
Noises ==
  {<<Fin(150), Fin(-150), Fin(75), Rat(25, 1000), Rat(-25, 1000), Rat(1, 100)>>,
   <<Fin(-90), Fin(210), Fin(-30), Rat(-1, 100), Rat(3, 100), Rat(-1, 50)>>}

\* np.random.normal raises ValueError for a negative scale.
UncertaintyStds == {150, -1}

CorridorLib ==
  {[orbit |-> FALSE, failAt |-> NoFailure, analytic |-> TRUE],
   [orbit |-> TRUE, failAt |-> NoFailure, analytic |-> TRUE],
   [orbit |-> TRUE, failAt |-> 0, analytic |-> FALSE],
   [orbit |-> TRUE, failAt |-> 5, analytic |-> FALSE],
   [orbit |-> TRUE, failAt |-> 6, analytic |-> FALSE]}

RunChoices == [noise : Noises, lib : CorridorLib]

CorridorVectors == {Nominal, NaNVec, StrVec, NoneVec, FinVec(<<1, 2, 3>>)}

\* physics_service.py:192: state_vector + np.concatenate([pos_uncertainty, vel_uncertainty])
Perturb(sv, noise) == Vec([i \in 1..6 |-> FAdd(sv.c[i], noise[i])])

\* physics_service.py:184-193: the trajectory of run i
RunTrajectory(sv, i, choice, epoch) ==
  IF i = 0
  THEN calculate_real_trajectory(sv, NominalDays, epoch, choice.lib)
  ELSE calculate_real_trajectory(Perturb(sv, choice.noise), PerturbedDays, epoch, choice.lib)

\* physics_service.py:189: the draw of run i raises, and the run is skipped (198-200)
RunRaises(i, std) == i > 0 /\ std < 0

\* Line 195 without its length test: every non-empty trajectory is kept.
Kept_AnyNonEmpty(trajectory) == trajectory # <<>>

\* physics_service.py:195
Kept(trajectory) == trajectory # <<>> /\ Len(trajectory) > MinSamples

\* physics_service.py:182-200: all_trajectories after runs 0..n-1
RECURSIVE CorridorLoop(_, _, _, _, _)
CorridorLoop(sv, n, std, runs, epoch) ==
  IF n = 0 THEN <<>>
  ELSE LET before == CorridorLoop(sv, n - 1, std, runs, epoch)
           i == n - 1
           trajectory == RunTrajectory(sv, i, runs[i], epoch)
       IN  IF ~RunRaises(i, std) /\ Kept(trajectory)
           THEN Append(before, trajectory)
           ELSE before

\* Line 203 without its single-trajectory fallback.
calculate_hazard_corridor_NoFallback(sv, n, std, runs, fb, epoch) ==
  IF sv.none \/ Len(sv.c) # 6 THEN <<>>
  ELSE IF ~AllNumbers(sv)
       THEN <<calculate_real_trajectory(sv, DefaultDays, epoch, fb)>>
       ELSE CorridorLoop(sv, n, std, runs, epoch)

\* physics_service.py:173-207
calculate_hazard_corridor(sv, n, std, runs, fb, epoch) ==
  IF sv.none \/ Len(sv.c) # 6 THEN <<>>
  ELSE IF ~AllNumbers(sv)
       THEN <<calculate_real_trajectory(sv, DefaultDays, epoch, fb)>>
       ELSE LET all_trajectories == CorridorLoop(sv, n, std, runs, epoch)
            IN  IF all_trajectories # <<>>
                THEN all_trajectories
                ELSE <<calculate_real_trajectory(sv, DefaultDays, epoch, fb)>>

(***************************************************************************)
(* Deflection model (physics_service.py:209-241).                          *)
(***************************************************************************)
RECURSIVE SqrtSearch(_, _, _)
SqrtSearch(n, lo, hi) ==
  IF lo >= hi THEN lo
  ELSE LET mid == (lo + hi + 1) \div 2
       IN  IF mid * mid <= n THEN SqrtSearch(n, mid, hi) ELSE SqrtSearch(n, lo, mid - 1)

\* The integer part of the square root of n (n < 2^31).
ISqrt(n) == SqrtSearch(n, 0, IF n < 46340 THEN n ELSE 46340)

Velocity(sv) == <<sv.c[4], sv.c[5], sv.c[6]>>

\* np.linalg.norm of three components
Norm(v) ==
  IF \E i \in 1..3 : v[i][1] = "nan" THEN NaN
  ELSE IF \E i \in 1..3 : v[i][1] = "inf" THEN Inf
  ELSE LET d == v[1][3] * v[2][3] * v[3][3]
           s == (v[1][2] * (d \div v[1][3])) * (v[1][2] * (d \div v[1][3]))
                + (v[2][2] * (d \div v[2][3])) * (v[2][2] * (d \div v[2][3]))
                + (v[3][2] * (d \div v[3][3])) * (v[3][2] * (d \div v[3][3]))
       IN  Rat(ISqrt(s), d)

IsZero(x) == IsFinite(x) /\ x[2] = 0

\* physics_service.py:223-224
BetaFactor == Rat(36, 10)
EfficiencyFactor == Rat(85, 100)

\* physics_service.py:226-230: the velocity change in km/s
ActualDvKms(dv, asteroid_mass, interceptor_mass) ==
  LET momentum_ratio == FDiv(FMul(Fin(interceptor_mass), EfficiencyFactor), Fin(asteroid_mass))
      actual_dv_ms == FMul(FMul(dv, BetaFactor), momentum_ratio)
  IN  FDiv(actual_dv_ms, Fin(1000))

\* Line 229 without its minus sign: a prograde push.
DvDirection_Prograde(v, norm) == [i \in 1..3 |-> FDiv(v[i], norm)]

\* physics_service.py:229
DvDirection(v, norm) == [i \in 1..3 |-> FDiv(FNeg(v[i]), norm)]

\* physics_service.py:222-233
DeflectedVector(sv, dv, asteroid_mass, interceptor_mass) ==
  LET v == Velocity(sv)
      dv_direction == DvDirection(v, Norm(v))
      a == ActualDvKms(dv, asteroid_mass, interceptor_mass)
  IN  Vec([i \in 1..6 |-> IF i <= 3 THEN sv.c[i]
                          ELSE FAdd(sv.c[i], FMul(dv_direction[i - 3], a))])

\* An exception inside the try block (215-237): numpy cannot convert the
\* vector, or the momentum ratio divides by a zero mass.
DeflectionRaises(sv, asteroid_mass) ==
  \/ ~AllNumbers(sv)
  \/ ~IsZero(Norm(Velocity(sv))) /\ asteroid_mass = 0

\* The division of line 226 done in floating point (no ZeroDivisionError),
\* so that the except branch of 239-241 is not taken.
PropagatedVector_NoRaise(sv, dv, asteroid_mass, interceptor_mass) ==
  IF ~AllNumbers(sv) THEN sv
  ELSE IF IsZero(Norm(Velocity(sv))) THEN sv
  ELSE DeflectedVector(sv, dv, asteroid_mass, interceptor_mass)

\* The vector handed to calculate_real_trajectory (220, 237, 241).
PropagatedVector(sv, dv, asteroid_mass, interceptor_mass) ==
  IF DeflectionRaises(sv, asteroid_mass) THEN sv
  ELSE IF IsZero(Norm(Velocity(sv))) THEN sv
  ELSE DeflectedVector(sv, dv, asteroid_mass, interceptor_mass)

\* physics_service.py:209-241
recalculate_trajectory_with_deflection(sv, dv, asteroid_mass, interceptor_mass, epoch, lib) ==
  IF sv.none \/ Len(sv.c) # 6 THEN <<>>
  ELSE calculate_real_trajectory(
         PropagatedVector(sv, dv, asteroid_mass, interceptor_mass), DefaultDays, epoch, lib)

DeltaVs == {Fin(0), Rat(1, 2), Fin(1)}
AsteroidMasses == {0, 1, 306, 1000}
InterceptorMasses == {500, 500000}

(***************************************************************************)
(* Decimal floats for the consequence predictor: <<m, e>> is m * 10^e with *)
(* a four-digit mantissa (1000 <= |m| <= 9999, or m = 0), truncated after  *)
(* every operation.  Python's float64 carries about 16 digits; the model   *)
(* keeps the order of the operations of the source.                        *)
(***************************************************************************)
RECURSIVE Pow10(_)
Pow10(k) == IF k <= 0 THEN 1 ELSE 10 * Pow10(k - 1)

RECURSIVE DNorm(_, _)
DNorm(m, e) ==
  IF m = 0 THEN <<0, 0>>
  ELSE IF Abs(m) >= 10000 THEN DNorm(Sign(m) * (Abs(m) \div 10), e + 1)
  ELSE IF Abs(m) < 1000 THEN DNorm(m * 10, e - 1)
  ELSE <<m, e>>

DInt(n) == DNorm(n, 0)
DZero == <<0, 0>>

DNeg(x) == <<-x[1], x[2]>>

DMul(x, y) == DNorm(x[1] * y[1], x[2] + y[2])

\* y is not zero
DDiv(x, y) == DNorm(Sign(x[1]) * Sign(y[1]) * ((Abs(x[1]) * 10000) \div Abs(y[1])),
                    x[2] - y[2] - 4)

DAdd(x, y) ==
  IF x[1] = 0 THEN y
  ELSE IF y[1] = 0 THEN x
  ELSE LET hi == IF x[2] >= y[2] THEN x ELSE y
           lo == IF x[2] >= y[2] THEN y ELSE x
           diff == hi[2] - lo[2]
       IN  IF diff > 4 THEN hi ELSE DNorm(hi[1] * Pow10(diff) + lo[1], lo[2])

DSub(x, y) == DAdd(x, DNeg(y))

DLess(x, y) == DSub(x, y)[1] < 0

DMin(x, y) == IF DLess(y, x) THEN y ELSE x

\* x ** 0.5 for x > 0
DSqrt(x) ==
  LET j == IF x[2] % 2 = 0 THEN 4 ELSE 5
  IN  DNorm(ISqrt(x[1] * Pow10(j)), (x[2] - j) \div 2)

RECURSIVE CbrtSearch(_, _, _)
CbrtSearch(n, lo, hi) ==
  IF lo >= hi THEN lo
  ELSE LET mid == (lo + hi + 1) \div 2
       IN  IF mid * mid * mid <= n THEN CbrtSearch(n, mid, hi) ELSE CbrtSearch(n, lo, mid - 1)

\* x ** (1/3) for x > 0
DCbrt(x) ==
  LET j == 3 + (x[2] % 3)
  IN  DNorm(CbrtSearch(x[1] * Pow10(j), 0, 1000), (x[2] - j) \div 3)

\* 1000 * 10^(k/10) for k = 1..9: the mantissas at which log10 gains a tenth.
Log10Steps == <<1259, 1585, 1996, 2512, 3163, 3982, 5012, 6310, 7944>>

\* log10(x) for x > 0, to the tenth below.
DLog10(x) ==
  DNorm(10 * (x[2] + 3) + Cardinality({k \in 1..9 : Log10Steps[k] <= x[1]}), -1)

\* round(x, 1)
DRound1(x) ==
  IF x[2] >= -1 THEN x
  ELSE LET k == -1 - x[2]
       IN  IF k > 5 THEN DZero
           ELSE DNorm(Sign(x[1]) * ((Abs(x[1]) + 5 * Pow10(k - 1)) \div Pow10(k)), -1)

\* int(x): truncation towards zero
DToInt(x) ==
  IF x[2] >= 0 THEN x[1] * Pow10(x[2])
  ELSE Sign(x[1]) * (Abs(x[1]) \div Pow10(-x[2]))

(***************************************************************************)
(* Mass (physics_service.py:11-26).                                        *)
(***************************************************************************)
SpectralTypes == {"C", "S", "M", "X"}

\* The table read with the density of the except branch (line 26) as default.
Density_StonyDefault(spectral_type) ==
  CASE spectral_type = "C" -> 1380
    [] spectral_type = "S" -> 2720
    [] spectral_type = "M" -> 5320
    [] OTHER -> 2720

\* physics_service.py:11-13, 18: ASTEROID_DENSITIES.get(type, default)
Density(spectral_type) ==
  CASE spectral_type = "C" -> 1380
    [] spectral_type = "S" -> 2720
    [] spectral_type = "M" -> 5320
    [] OTHER -> 2000

MathPi == <<3142, -3>>
FourThirds == DDiv(DInt(4), DInt(3))

\* physics_service.py:19-20
Volume(diameter_m) ==
  LET radius_m == DDiv(DInt(diameter_m), DInt(2))
  IN  DMul(DMul(FourThirds, MathPi), DMul(DMul(radius_m, radius_m), radius_m))

\* physics_service.py:15-26
calculate_asteroid_mass(diameter_m, spectral_type) ==
  DMul(DInt(Density(spectral_type)), Volume(diameter_m))

(***************************************************************************)
(* Consequence predictor (ml_service.py:25-74, 191-246).                   *)
(***************************************************************************)
CasualtyClamp == 5000000
SmallBlastClamp == 100000
DefaultCasualties == 1500000

\* ml_service.py:237-246: the values returned when the computation raises
PhysicsDefault ==
  [economic_damage_usd |-> <<8500, 9>>,
   predicted_casualties |-> DefaultCasualties,
   predicted_seismic_magnitude |-> <<8100, -3>>,
   inundation_radius_km |-> DInt(25),
   crater_diameter_km |-> DInt(5),
   blast_radius_km |-> DInt(50),
   impact_energy_megatons |-> DInt(500),
   calculated_mass_kg |-> <<2700, 7>>]

\* ml_service.py:195-197
EnergyJoules(diameter_m, velocity_kms, spectral_type) ==
  LET mass_kg == calculate_asteroid_mass(diameter_m, spectral_type)
      velocity_ms == DMul(DInt(velocity_kms), DInt(1000))
  IN  DMul(DMul(<<5000, -4>>, mass_kg), DMul(velocity_ms, velocity_ms))

\* ml_service.py:205: math.log10 raises ValueError unless its argument is positive
PhysicsRaises(diameter_m, velocity_kms, spectral_type) ==
  EnergyJoules(diameter_m, velocity_kms, spectral_type)[1] <= 0

\* ml_service.py:212-216
Casualties(blast_radius_km, population_density) ==
  IF DLess(DInt(10), blast_radius_km)
  THEN LET area_affected == DMul(MathPi, DMul(blast_radius_km, blast_radius_km))
       IN  DMin(DMul(DMul(area_affected, DInt(population_density)), <<3000, -4>>),
                DInt(CasualtyClamp))
  ELSE DMin(DMul(DMul(blast_radius_km, DInt(population_density)), DInt(100)),
            DInt(SmallBlastClamp))

\* ml_service.py:191-246
predict_consequences_with_physics(diameter_m, velocity_kms, population_density, is_oceanic, spectral_type) ==
  IF PhysicsRaises(diameter_m, velocity_kms, spectral_type) THEN PhysicsDefault
  ELSE
  LET mass_kg == calculate_asteroid_mass(diameter_m, spectral_type)
      energy_joules == EnergyJoules(diameter_m, velocity_kms, spectral_type)
      energy_megatons == DDiv(energy_joules, <<4184, 12>>)
      crater_diameter == IF is_oceanic THEN DMul(DInt(diameter_m), DInt(2))
                         ELSE DMul(DInt(diameter_m), DInt(15))
      seismic_magnitude == DSub(DMul(<<6700, -4>>, DLog10(energy_joules)), <<5870, -3>>)
      blast_radius_km == DMul(DMul(<<1000, -4>>, DCbrt(energy_megatons)), DInt(10))
      base_economic_damage == DMul(energy_megatons, <<1000, 6>>)
      density_multiplier == DAdd(DInt(1), DDiv(DInt(population_density), DInt(100)))
      economic_damage_usd == DMul(base_economic_damage, density_multiplier)
      predicted_casualties == Casualties(blast_radius_km, population_density)
      tsunami_height == IF is_oceanic
                        THEN DMul(DMul(<<5000, -4>>, DSqrt(DSqrt(energy_megatons))), DInt(10))
                        ELSE DZero
      inundation_radius == IF is_oceanic THEN DMul(tsunami_height, DInt(100)) ELSE DZero
  IN  [economic_damage_usd |-> economic_damage_usd,
       predicted_casualties |-> DToInt(predicted_casualties),
       predicted_seismic_magnitude |-> DRound1(seismic_magnitude),
       inundation_radius_km |-> DRound1(inundation_radius),
       crater_diameter_km |-> DRound1(DDiv(crater_diameter, DInt(1000))),
       blast_radius_km |-> DRound1(blast_radius_km),
       impact_energy_megatons |-> DRound1(energy_megatons),
       calculated_mass_kg |-> mass_kg]

\* ml_service.py:61-74.  np.log10 of a diameter <= 0 is -inf or nan (no
\* exception): finite says whether the factors are numbers.
calculate_ai_enhancement(diameter, velocity, population_density) ==
  IF diameter <= 0 THEN [finite |-> FALSE]
  ELSE
  LET size_factor == DDiv(DLog10(DInt(diameter)), DInt(3))
      velocity_factor == DDiv(DInt(velocity), DInt(20))
      density_factor == DDiv(DInt(population_density), DInt(100))
  IN  [finite |-> TRUE,
       economic |-> DAdd(<<8000, -4>>, DMul(DMul(<<4000, -4>>, size_factor), density_factor)),
       casualties |-> DAdd(<<7000, -4>>, DMul(DMul(<<6000, -4>>, size_factor), density_factor)),
       seismic |-> DMul(<<1000, -4>>, size_factor),
       tsunami |-> DAdd(<<9000, -4>>, DMul(<<2000, -4>>, size_factor)),
       crater |-> DAdd(DInt(1), DMul(<<3000, -4>>, size_factor)),
       blast |-> DAdd(<<8000, -4>>, DMul(<<4000, -4>>, velocity_factor))]

\* The except branch of lines 53-59 handing back the estimate with the
\* base economic factor 0.8 already applied.
predict_consequences_with_ai_PartlyEnhanced(diameter, velocity_kms, population_density, is_oceanic) ==
  LET physics_prediction ==
        predict_consequences_with_physics(diameter, velocity_kms, population_density,
                                          is_oceanic, "S")
      f == calculate_ai_enhancement(diameter, velocity_kms, population_density)
  IN  IF ~f.finite
      THEN [physics_prediction EXCEPT !.economic_damage_usd = DMul(@, <<8000, -4>>)]
      ELSE [economic_damage_usd |-> DMul(physics_prediction.economic_damage_usd, f.economic),
            predicted_casualties |->
              DToInt(DMul(DInt(physics_prediction.predicted_casualties), f.casualties)),
            predicted_seismic_magnitude |->
              DAdd(physics_prediction.predicted_seismic_magnitude, f.seismic),
            inundation_radius_km |-> DMul(physics_prediction.inundation_radius_km, f.tsunami),
            crater_diameter_km |-> DMul(physics_prediction.crater_diameter_km, f.crater),
            blast_radius_km |-> DMul(physics_prediction.blast_radius_km, f.blast),
            impact_energy_megatons |-> physics_prediction.impact_energy_megatons,
            calculated_mass_kg |-> physics_prediction.calculated_mass_kg,
            ai_confidence |-> <<8500, -4>>]

\* ml_service.py:25-59.  int() of a non-finite product raises (line 41) and
\* the except branch returns the physics estimate.
predict_consequences_with_ai(diameter, velocity_kms, population_density, is_oceanic) ==
  LET physics_prediction ==
        predict_consequences_with_physics(diameter, velocity_kms, population_density,
                                          is_oceanic, "S")
      f == calculate_ai_enhancement(diameter, velocity_kms, population_density)
  IN  IF ~f.finite THEN physics_prediction
      ELSE [economic_damage_usd |-> DMul(physics_prediction.economic_damage_usd, f.economic),
            predicted_casualties |->
              DToInt(DMul(DInt(physics_prediction.predicted_casualties), f.casualties)),
            predicted_seismic_magnitude |->
              DAdd(physics_prediction.predicted_seismic_magnitude, f.seismic),
            inundation_radius_km |-> DMul(physics_prediction.inundation_radius_km, f.tsunami),
            crater_diameter_km |-> DMul(physics_prediction.crater_diameter_km, f.crater),
            blast_radius_km |-> DMul(physics_prediction.blast_radius_km, f.blast),
            impact_energy_megatons |-> physics_prediction.impact_energy_megatons,
            calculated_mass_kg |-> physics_prediction.calculated_mass_kg,
            ai_confidence |-> <<8500, -4>>]

Diameters == {0, 100, 500, 1000}
Velocities == {0, 10, 20}
PopulationDensities == {0, 50, 5000}

(***************************************************************************)
(* Required delta-v (physics_service.py:28-47).                            *)
(***************************************************************************)
DMax(x, y) == IF DLess(x, y) THEN y ELSE x

\* physics_service.py:41 and 47
MinPracticalDv == DNorm(1, -4)
ErrorDv == DNorm(5, -3)

\* physics_service.py:38: the float division raises ZeroDivisionError when
\* the lead time is 0
DeltaVRaises(time_to_impact_days) == time_to_impact_days * 24 * 3600 = 0

\* physics_service.py:28-47
calculate_required_delta_v(asteroid_mass_kg, time_to_impact_days, desired_miss_distance_km) ==
  IF DeltaVRaises(time_to_impact_days) THEN ErrorDv
  ELSE
  LET time_to_impact_seconds == time_to_impact_days * 24 * 3600
      desired_miss_distance_m == desired_miss_distance_km * 1000
      amplification_factor == DMul(<<2500, -3>>, <<3600, -3>>)
      required_dv == DDiv(DInt(desired_miss_distance_m),
                          DMul(amplification_factor, DInt(time_to_impact_seconds)))
  IN  DMax(required_dv, MinPracticalDv)

ImpactDays == {-365, 0, 1, 30, 365, 1825}
MissDistancesKm == {-10000, 10000, 50000}
DvMasses == {DNeg(DNorm(1, 3)), DNorm(1, 8), DNorm(1, 10), DNorm(1, 12)}

\* Diameters handed to calculate_asteroid_mass and to
\* predict_consequences_with_ai, an invalid one included.
MassDiameters == Diameters \cup {-100}

(***************************************************************************)
(* Mission recommender (ml_service.py:14-23, 76-119, 156-189).             *)
(* MISSION_PLANNER_MODEL is set once, when ml_service is imported.         *)
(***************************************************************************)
NotImported == "not imported"
None == "None"
RandomForest == "RandomForestClassifier"

ModelArtifact == "mission_planner_model.pkl"
MetadataArtifact == "model_metadata.pkl"
ArtifactSets == SUBSET {ModelArtifact, MetadataArtifact}

\* ml_service.py:15-23: a joblib.load that raises leaves the model None.
LoadModel(artifacts) ==
  IF ModelArtifact \in artifacts /\ MetadataArtifact \in artifacts THEN RandomForest ELSE None

\* Text is a list of tokens, so that split() and replace() act on it.
Contains(text, token) == \E i \in 1..Len(text) : text[i] = token

IndexOf(text, token) == CHOOSE i \in 1..Len(text) : text[i] = token /\ \A j \in 1..(i - 1) : text[j] # token

\* str.replace(old, new)
Replace(text, old, new) == [i \in 1..Len(text) |-> IF text[i] = old THEN new ELSE text[i]]

\* str.split(sep, 1) of a text that contains sep
SplitOnce(text, sep) ==
  LET i == IndexOf(text, sep)
  IN  <<SubSeq(text, 1, i - 1), SubSeq(text, i + 1, Len(text))>>

EarthLaunchVehicle == <<"Earth", " ", "Launch", " ", "Vehicle">>
CislunarDepot == <<"Cislunar", " ", "Depot">>
RapidResponseKineticImpactor == <<"Rapid", " ", "Response", " ", "Kinetic", " ", "Impactor">>
NuclearDisruptionDevice == <<"Nuclear", " ", "Disruption", " ", "Device">>
HeavyKineticImpactor == <<"Heavy", " ", "Kinetic", " ", "Impactor">>
EnhancedKineticImpactor == <<"Enhanced", " ", "Kinetic", " ", "Impactor", " ", "(DART-Style)">>

ShortLeadDays == 180
LargeMassKg == DNorm(1, 12)
HighDeltaV == DNorm(2, -2)

\* The ladder with the mass rule tried before the lead-time rule.
get_physics_based_recommendation_MassFirst(lti_days, delta_v, asteroid_mass_kg, asteroid_diameter_m) ==
  IF DLess(LargeMassKg, asteroid_mass_kg)
  THEN [source |-> CislunarDepot, interceptor_type |-> NuclearDisruptionDevice,
        confidence_score |-> DNorm(880, -1),
        rationale |-> <<"Large mass", asteroid_mass_kg>>, model_type |-> "physics_fallback"]
  ELSE IF lti_days < ShortLeadDays
  THEN [source |-> EarthLaunchVehicle, interceptor_type |-> RapidResponseKineticImpactor,
        confidence_score |-> DNorm(750, -1),
        rationale |-> <<"Short timeline", lti_days>>, model_type |-> "physics_fallback"]
  ELSE IF DLess(HighDeltaV, delta_v)
  THEN [source |-> EarthLaunchVehicle, interceptor_type |-> HeavyKineticImpactor,
        confidence_score |-> DNorm(820, -1),
        rationale |-> <<"High dV requirement", delta_v>>, model_type |-> "physics_fallback"]
  ELSE [source |-> CislunarDepot, interceptor_type |-> EnhancedKineticImpactor,
        confidence_score |-> DNorm(915, -1),
        rationale |-> <<"Optimal parameters", lti_days, delta_v>>,
        model_type |-> "physics_fallback"]

\* The ladder with the delta-v rule tried before the mass rule.
get_physics_based_recommendation_DeltaVFirst(lti_days, delta_v, asteroid_mass_kg, asteroid_diameter_m) ==
  IF lti_days < ShortLeadDays
  THEN [source |-> EarthLaunchVehicle, interceptor_type |-> RapidResponseKineticImpactor,
        confidence_score |-> DNorm(750, -1),
        rationale |-> <<"Short timeline", lti_days>>, model_type |-> "physics_fallback"]
  ELSE IF DLess(HighDeltaV, delta_v)
  THEN [source |-> EarthLaunchVehicle, interceptor_type |-> HeavyKineticImpactor,
        confidence_score |-> DNorm(820, -1),
        rationale |-> <<"High dV requirement", delta_v>>, model_type |-> "physics_fallback"]
  ELSE IF DLess(LargeMassKg, asteroid_mass_kg)
  THEN [source |-> CislunarDepot, interceptor_type |-> NuclearDisruptionDevice,
        confidence_score |-> DNorm(880, -1),
        rationale |-> <<"Large mass", asteroid_mass_kg>>, model_type |-> "physics_fallback"]
  ELSE [source |-> CislunarDepot, interceptor_type |-> EnhancedKineticImpactor,
        confidence_score |-> DNorm(915, -1),
        rationale |-> <<"Optimal parameters", lti_days, delta_v>>,
        model_type |-> "physics_fallback"]

\* ml_service.py:156-189
get_physics_based_recommendation(lti_days, delta_v, asteroid_mass_kg, asteroid_diameter_m) ==
  IF lti_days < ShortLeadDays
  THEN [source |-> EarthLaunchVehicle, interceptor_type |-> RapidResponseKineticImpactor,
        confidence_score |-> DNorm(750, -1),
        rationale |-> <<"Short timeline", lti_days>>, model_type |-> "physics_fallback"]
  ELSE IF DLess(LargeMassKg, asteroid_mass_kg)
  THEN [source |-> CislunarDepot, interceptor_type |-> NuclearDisruptionDevice,
        confidence_score |-> DNorm(880, -1),
        rationale |-> <<"Large mass", asteroid_mass_kg>>, model_type |-> "physics_fallback"]
  ELSE IF DLess(HighDeltaV, delta_v)
  THEN [source |-> EarthLaunchVehicle, interceptor_type |-> HeavyKineticImpactor,
        confidence_score |-> DNorm(820, -1),
        rationale |-> <<"High dV requirement", delta_v>>, model_type |-> "physics_fallback"]
  ELSE [source |-> CislunarDepot, interceptor_type |-> EnhancedKineticImpactor,
        confidence_score |-> DNorm(915, -1),
        rationale |-> <<"Optimal parameters", lti_days, delta_v>>,
        model_type |-> "physics_fallback"]

\* Class labels of the trained classifier (train_mission_model.py:23-35),
\* and one label without an underscore for the branch of lines 103-105.
Predictions ==
  {<<"Earth", "-", "Vehicle", "_", "Rapid", "-", "Kinetic">>,
   <<"Cislunar", "-", "Depot", "_", "Nuclear", "-", "Deflection">>,
   <<"Gravity", "-", "Tractor">>}

\* What the scikit-learn calls of lines 94-96 do: the step that raises
\* ("none": no step does), the predicted label and its probability.
ClassifierSteps == {"predict", "predict_proba", "classes_"}

ClassifierOutcomes ==
  [raisesAt : ClassifierSteps, prediction : {<<"Gravity", "-", "Tractor">>}, probability : {DNorm(873, -3)}]
  \cup [raisesAt : {"none"}, prediction : Predictions, probability : {DNorm(873, -3)}]

\* np.log10 of a mass that is not positive is -inf or nan, which predict rejects.
ClassifierRaises(asteroid_mass_kg, clf) == clf.raisesAt # "none" \/ asteroid_mass_kg[1] <= 0

\* ml_service.py:121-154: the sentences chosen by the thresholds.
generate_ai_rationale(lti_days, delta_v, mass_kg, mission_type, architecture, confidence) ==
  <<IF lti_days < 180 THEN "Short timeline" ELSE IF lti_days < 730 THEN "Moderate timeline" ELSE "Extended timeline",
    lti_days,
    IF DLess(mass_kg, DNorm(1, 8)) THEN "Small asteroid mass" ELSE IF DLess(mass_kg, DNorm(1, 11)) THEN "Medium asteroid mass" ELSE "Large asteroid mass",
    IF DLess(delta_v, DNorm(1, -3)) THEN "Low dV" ELSE IF DLess(delta_v, DNorm(1, -2)) THEN "Moderate dV" ELSE "High dV",
    IF Contains(architecture, "Earth") THEN "Earth-based launch" ELSE "Cislunar architecture",
    confidence>>

\* ml_service.py:94-116: the classifier path when no step raises.
ClassifierRecommendation(lti_days, delta_v, asteroid_mass_kg, clf) ==
  LET prediction == clf.prediction
      confidence_score == DRound1(DMul(clf.probability, DInt(100)))
      parts == SplitOnce(prediction, "_")
      mission_type == IF Contains(prediction, "_") THEN Replace(parts[2], "-", " ")
                      ELSE Replace(prediction, "-", " ")
      architecture == IF Contains(prediction, "_") THEN Replace(parts[1], "-", " ")
                      ELSE <<"Mixed">>
  IN  [source |-> architecture, interceptor_type |-> mission_type,
       confidence_score |-> confidence_score,
       rationale |-> generate_ai_rationale(lti_days, delta_v, asteroid_mass_kg, mission_type, architecture, confidence_score),
       model_type |-> "random_forest",
       features_used |-> <<"lti_days", "delta_v", "log10(mass)">>]

\* The except branch of lines 117-119 handing the exception to the caller.
recommend_mission_plan_with_ai_Unhandled(model, lti_days, delta_v, asteroid_mass_kg, asteroid_diameter_m, clf) ==
  IF model = None
  THEN get_physics_based_recommendation(lti_days, delta_v, asteroid_mass_kg, asteroid_diameter_m)
  ELSE IF ClassifierRaises(asteroid_mass_kg, clf) THEN [raised |-> "Exception"]
  ELSE ClassifierRecommendation(lti_days, delta_v, asteroid_mass_kg, clf)

\* ml_service.py:76-119
recommend_mission_plan_with_ai(model, lti_days, delta_v, asteroid_mass_kg, asteroid_diameter_m, clf) ==
  IF model = None
  THEN get_physics_based_recommendation(lti_days, delta_v, asteroid_mass_kg, asteroid_diameter_m)
  ELSE IF ClassifierRaises(asteroid_mass_kg, clf)
  THEN get_physics_based_recommendation(lti_days, delta_v, asteroid_mass_kg, asteroid_diameter_m)
  ELSE ClassifierRecommendation(lti_days, delta_v, asteroid_mass_kg, clf)

LeadTimes == {-5, 0, 1, 179, 180, 730}
RequiredDvs == {DNorm(1, -4), DNorm(5, -3), DNorm(2, -2), DNorm(5, -2)}
MassesKg == {DZero, DNorm(1, 9), DNorm(1, 12), DNorm(2, 12)}

(***************************************************************************)
(* Calendar.  A date is a day number counted from 2029-01-01, and one tick *)
(* of the wall clock is TickDays days.  A date string is the format it is  *)
(* written in and the day it names.                                        *)
(***************************************************************************)
TickDays == 365

\* datetime.now().date() / datetime.date.today()
Today(t) == t * TickDays

IsoFormat == "%Y-%m-%d"
FullFormat == "%Y-%b-%d %H:%M"

IsoDate(day) == <<IsoFormat, day>>
FullDate(day) == <<FullFormat, day>>

\* date.strftime("%Y-%m-%d")
strftime(day) == IsoDate(day)

\* datetime.strptime(text, "%Y-%m-%d") raises ValueError on any other format
ParsesAsDate(text) == text[1] = IsoFormat
strptime(text) == text[2]

\* 2029-04-13, 2030-04-15, 2123-11-20 and 2135-09-25 as day numbers
ApophisApproach == 102
ItokawaApproach == 469
DidymosApproach == 34655
BennuApproach == 38982

\* random.randint(730, 3650)
DaysAhead == {730, 3650}

(***************************************************************************)
(* Dictionaries are functions on the keys they hold.                       *)
(***************************************************************************)
EmptyDict == <<>>

\* Binding an argument to a name evaluates it once.
\* d.update(e)
Update(d, e) ==
  CHOOSE r \in {[k \in DOMAIN d0 \cup DOMAIN e0 |-> IF k \in DOMAIN e0 THEN e0[k] ELSE d0[k]] :
                  d0 \in {d}, e0 \in {e}} : TRUE

\* d.get(key, default)
Get(d, key, default) == IF key \in DOMAIN d THEN d[key] ELSE default

\* d[key] = value
Put(d, key, value) ==
  CHOOSE r \in {[k \in DOMAIN d0 \cup {key} |-> IF k = key THEN v0 ELSE d0[k]] :
                  d0 \in {d}, v0 \in {value}} : TRUE

(***************************************************************************)
(* Reference tables of sample_data.py (diameters rounded to the metre).    *)
(***************************************************************************)
Approach(date, date_full, velocity) ==
  [close_approach_date |-> date, close_approach_date_full |-> date_full,
   relative_velocity |-> velocity]

\* sample_data.py:8-102
ApophisData ==
  [id |-> "2099942", name |-> <<"99942 Apophis (2004 MN4)">>,
   estimated_diameter |-> [estimated_diameter_min |-> 310, estimated_diameter_max |-> 694],
   is_potentially_hazardous_asteroid |-> TRUE,
   close_approach_data |-> <<Approach(IsoDate(ApophisApproach), FullDate(ApophisApproach), "7.429")>>,
   orbital_data |-> [orbit_id |-> "76"],
   spectral_type |-> "S"]

SampleBody(id, name, diameter_min, diameter_max, day, velocity, hazardous, spectral_type) ==
  [id |-> id, name |-> <<name>>,
   estimated_diameter |-> [estimated_diameter_min |-> diameter_min,
                           estimated_diameter_max |-> diameter_max],
   close_approach_data |-> <<Approach(IsoDate(day), FullDate(day), velocity)>>,
   is_potentially_hazardous_asteroid |-> hazardous,
   spectral_type |-> spectral_type]

\* sample_data.py:105-186
SampleAsteroids ==
  [i \in {"101955", "25143", "65803"} |->
     IF i = "101955"
     THEN SampleBody("2101955", "101955 Bennu (1999 RQ36)", 420, 580, BennuApproach, "7.2", TRUE, "B")
     ELSE IF i = "25143"
     THEN SampleBody("2025143", "25143 Itokawa (1998 SF36)", 330, 530, ItokawaApproach, "8.1", FALSE, "S")
     ELSE SampleBody("2065803", "65803 Didymos (1996 GT)", 780, 850, DidymosApproach, "6.1", FALSE, "S")]

\* The table object that get_sample_asteroid copies (sample_data.py:190-196).
SampleKey(asteroid_id) ==
  IF asteroid_id = "99942" THEN "apophis_data"
  ELSE IF asteroid_id \in DOMAIN sample_asteroids THEN asteroid_id
  ELSE "apophis_data"

\* sample_data.py:188-196: dict.copy() copies the top level only, so the
\* close_approach_data list of the copy is the list of the table.
get_sample_asteroid(asteroid_id) ==
  IF SampleKey(asteroid_id) = "apophis_data" THEN apophis_data ELSE sample_asteroids[asteroid_id]

(***************************************************************************)
(* Resolver (horizons_service.py).                                         *)
(***************************************************************************)
\* horizons_service.py:311-318 and 356-363
known_approach_dates ==
  [i \in {"99942", "2099942", "101955", "2101955", "25143", "2025143"} |->
     IF i \in {"99942", "2099942"} THEN ApophisApproach
     ELSE IF i \in {"101955", "2101955"} THEN BennuApproach
     ELSE ItokawaApproach]

\* horizons_service.py:208, 343, 394: the generic orbit [1.5e8, 0, 0, 0, 30.0, 0]
GenericOrbit == Nominal

\* horizons_service.py:353-397
_create_minimal_data(asteroid_id, today, days_ahead) ==
  LET approach_date == IF asteroid_id \in DOMAIN known_approach_dates
                       THEN IsoDate(known_approach_dates[asteroid_id])
                       ELSE strftime(today + days_ahead)
  IN  [id |-> asteroid_id, name |-> <<"Asteroid ", asteroid_id>>,
       estimated_diameter |-> [estimated_diameter_min |-> 300, estimated_diameter_max |-> 600],
       close_approach_data |-> <<Approach(approach_date, approach_date, "7.429")>>,
       state_vector |-> GenericOrbit,
       is_potentially_hazardous_asteroid |-> TRUE,
       data_source |-> "Emergency_Fallback"]

\* horizons_service.py:294-302
_has_required_data(data) ==
  \A key \in {"estimated_diameter", "close_approach_data", "state_vector"} : key \in DOMAIN data

\* The score without the term of lines 409-410.
_calculate_data_integrity_NoOrbitalTerm(data) ==
  LET s1 == IF "state_vector" \in DOMAIN data THEN 40 ELSE 0
      s2 == s1 + (IF "estimated_diameter" \in DOMAIN data THEN 30 ELSE 0)
      score == s2 + (IF "close_approach_data" \in DOMAIN data THEN 20 ELSE 0)
  IN  IF score < 100 THEN score ELSE 100

\* horizons_service.py:399-412
_calculate_data_integrity(data) ==
  LET s1 == IF "state_vector" \in DOMAIN data THEN 40 ELSE 0
      s2 == s1 + (IF "estimated_diameter" \in DOMAIN data THEN 30 ELSE 0)
      s3 == s2 + (IF "close_approach_data" \in DOMAIN data THEN 20 ELSE 0)
      score == s3 + (IF "jpl_orbital_data" \in DOMAIN data THEN 10 ELSE 0)
  IN  IF score < 100 THEN score ELSE 100

\* horizons_service.py:320-334: the date written into the sample record
ApproachDateStr(asteroid_id, today, days_ahead) ==
  IF asteroid_id \in DOMAIN known_approach_dates
  THEN IsoDate(known_approach_dates[asteroid_id])
  ELSE strftime(today + days_ahead)

\* horizons_service.py:332-334, on the list shared with the table
OverrideDate(record, approach_date_str) ==
  IF "close_approach_data" \in DOMAIN record /\ record.close_approach_data # <<>>
  THEN [record EXCEPT !.close_approach_data[1].close_approach_date = approach_date_str,
                      !.close_approach_data[1].close_approach_date_full = approach_date_str]
  ELSE record

\* horizons_service.py:304-351.  The try block raises when the import of
\* line 307 does; the result carries the data and the tables as the call
\* leaves them.
_enhance_with_sample_data(data, asteroid_id, today, enh) ==
  IF enh.raises
  THEN [data |-> _create_minimal_data(asteroid_id, today, enh.days_ahead),
        apophis_data |-> apophis_data, sample_asteroids |-> sample_asteroids]
  ELSE LET sample_data == OverrideDate(get_sample_asteroid(asteroid_id),
                                       ApproachDateStr(asteroid_id, today, enh.days_ahead))
           merged == Update(sample_data, data)
           key == SampleKey(asteroid_id)
       IN  [data |-> IF "state_vector" \in DOMAIN merged THEN merged
                     ELSE Put(merged, "state_vector", GenericOrbit),
            apophis_data |-> IF key = "apophis_data" THEN sample_data ELSE apophis_data,
            sample_asteroids |-> IF key = "apophis_data" THEN sample_asteroids
                                 ELSE [sample_asteroids EXCEPT ![key] = sample_data]]

(***************************************************************************)
(* Upstream sources.  An outcome is what the call does: the service is     *)
(* not importable ("unavailable"), the call raises, or it returns None or  *)
(* a dictionary.                                                           *)
(***************************************************************************)
Outcome(kind, value) == [kind |-> kind, value |-> value]

\* A first close approach long before, and long after, every call time.
PastApproach == Approach(IsoDate(-3000), FullDate(-3000), "12.5")
FutureApproach == Approach(IsoDate(5000), FullDate(5000), "12.5")

\* A first close approach on the day the wall clock reaches after one tick.
ClockApproach == Approach(IsoDate(Today(1)), FullDate(Today(1)), "12.5")

NeoRecord(asteroid_id, approaches) ==
  [id |-> asteroid_id, name |-> <<"NeoWs name">>,
   estimated_diameter |-> [estimated_diameter_min |-> 200, estimated_diameter_max |-> 400],
   close_approach_data |-> approaches,
   data_source |-> "NASA_NEO_Web_Service_Real_Time"]

\* nasa_neows_service.py:15-44, 150-171
NeoOutcomes(asteroid_id) ==
  {Outcome("unavailable", EmptyDict), Outcome("raises", EmptyDict), Outcome("none", EmptyDict),
   Outcome("dict", [name |-> <<"NeoWs name">>]),
   Outcome("dict", [id |-> asteroid_id, name |-> <<"NeoWs name">>]),
   Outcome("dict", NeoRecord(asteroid_id, <<PastApproach>>)),
   Outcome("dict", NeoRecord(asteroid_id, <<FutureApproach>>)),
   Outcome("dict", NeoRecord(asteroid_id, <<>>)),
   Outcome("dict", Put(NeoRecord(asteroid_id, <<>>), "state_vector", FinVec(<<1, 2, 3>>)))}

\* small_body_service.py:14-44
SmallBodyOutcomes ==
  {Outcome("unavailable", EmptyDict), Outcome("raises", EmptyDict), Outcome("none", EmptyDict),
   Outcome("dict", [source |-> "JPL_SBDB"])}

\* What astroquery returns to get_horizons_data: positions in AU, velocities in AU/day.
HorizonsVectors == [x |-> Fin(1), y |-> Fin(0), z |-> Fin(0), vx |-> Fin(0), vy |-> Rat(1, 100), vz |-> Fin(0)]

HorizonsOutcomes ==
  {Outcome("raises", HorizonsVectors), Outcome("dict", HorizonsVectors),
   Outcome("dict", [HorizonsVectors EXCEPT !.x = NaN])}

AU_TO_KM == 149600000
DAY_TO_SEC == 86400

\* horizons_service.py:129-141
ConvertedVector(vectors) ==
  LET km(a) == FMul(a, Fin(AU_TO_KM))
      kms(a) == FDiv(FMul(a, Fin(AU_TO_KM)), Fin(DAY_TO_SEC))
  IN  Vec(<<km(vectors.x), km(vectors.y), km(vectors.z),
            kms(vectors.vx), kms(vectors.vy), kms(vectors.vz)>>)

\* horizons_service.py:98-183
get_horizons_data(asteroid_id, t, lib) ==
  IF lib.kind = "raises" THEN Outcome("none", EmptyDict)
  ELSE IF ~AllFinite(ConvertedVector(lib.value)) THEN Outcome("none", EmptyDict)
  ELSE Outcome("dict", [state_vector |-> ConvertedVector(lib.value),
                        orbital_elements |-> [eccentricity |-> Rat(19, 100)],
                        ephemeris_quality |-> "HIGH_PRECISION",
                        query_time |-> t,
                        data_source |-> "JPL_Horizons_Real_Time"])

\* if payload: a dictionary that is not empty
Truthy(outcome) == outcome.kind = "dict" /\ DOMAIN outcome.value # {}

NewFrame == [final_data |-> EmptyDict, data_sources |-> <<>>, queried |-> <<>>]

\* horizons_service.py:42-55
MergeNeo(frame, neo) ==
  IF neo.kind = "unavailable" THEN frame
  ELSE IF Truthy(neo) /\ "id" \in DOMAIN neo.value
  THEN [final_data |-> Update(frame.final_data, neo.value),
        data_sources |-> Append(frame.data_sources, "NASA_NEO_WS"),
        queried |-> Append(frame.queried, "NASA_NEO_WS")]
  ELSE [frame EXCEPT !.queried = Append(@, "NASA_NEO_WS")]

\* Step 2 skipped once step 1 has produced nothing.
MergeSmallBody_AfterNeoOnly(frame, jpl) ==
  IF jpl.kind = "unavailable" \/ frame.data_sources = <<>> THEN frame
  ELSE IF Truthy(jpl)
  THEN [final_data |-> Put(frame.final_data, "jpl_orbital_data", jpl.value),
        data_sources |-> Append(frame.data_sources, "JPL_SmallBody_DB"),
        queried |-> Append(frame.queried, "JPL_SmallBody_DB")]
  ELSE [frame EXCEPT !.queried = Append(@, "JPL_SmallBody_DB")]

\* horizons_service.py:57-70
MergeSmallBody(frame, jpl) ==
  IF jpl.kind = "unavailable" THEN frame
  ELSE IF Truthy(jpl)
  THEN [final_data |-> Put(frame.final_data, "jpl_orbital_data", jpl.value),
        data_sources |-> Append(frame.data_sources, "JPL_SmallBody_DB"),
        queried |-> Append(frame.queried, "JPL_SmallBody_DB")]
  ELSE [frame EXCEPT !.queried = Append(@, "JPL_SmallBody_DB")]

\* horizons_service.py:72-82
MergeHorizons(frame, horizons_data) ==
  IF Truthy(horizons_data)
  THEN [final_data |-> Update(frame.final_data, horizons_data.value),
        data_sources |-> Append(frame.data_sources, "JPL_Horizons"),
        queried |-> Append(frame.queried, "JPL_Horizons")]
  ELSE [frame EXCEPT !.queried = Append(@, "JPL_Horizons")]

\* horizons_service.py:39-82
Merged(asteroid_id, t, neo, jpl, lib) ==
  MergeHorizons(MergeSmallBody(MergeNeo(NewFrame, neo), jpl), get_horizons_data(asteroid_id, t, lib))

\* horizons_service.py:90-93
WithMetadata(final_data, data_sources, t) ==
  LET sourced == Put(final_data, "data_sources", data_sources)
  IN  Put(Put(sourced, "data_integrity_score", _calculate_data_integrity(sourced)),
          "last_updated", t)

\* horizons_service.py:84-96, on the merged data.  The result carries the
\* returned record, the tables as the call leaves them and the sources that
\* were queried.
Validated(frame, enhanced, t) ==
  IF ~_has_required_data(frame.final_data)
  THEN [record |-> WithMetadata(enhanced.data, Append(frame.data_sources, "Enhanced_Sample_Data"), t),
        apophis_data |-> enhanced.apophis_data,
        sample_asteroids |-> enhanced.sample_asteroids,
        queried |-> frame.queried,
        enhances |-> TRUE]
  ELSE [record |-> WithMetadata(frame.final_data, frame.data_sources, t),
        apophis_data |-> apophis_data,
        sample_asteroids |-> sample_asteroids,
        queried |-> frame.queried,
        enhances |-> FALSE]

\* horizons_service.py:33-96
get_asteroid_data(asteroid_id, t, neo, jpl, lib, enh) ==
  CHOOSE r \in {Validated(frame, enhanced, t) :
                  frame \in {Merged(asteroid_id, t, neo, jpl, lib)},
                  enhanced \in {_enhance_with_sample_data(Merged(asteroid_id, t, neo, jpl, lib).final_data, asteroid_id, Today(t), enh)}} : TRUE

AsteroidIds == {"99942", "65803", "433"}

EnhanceOutcomes == [raises : BOOLEAN, days_ahead : DaysAhead]

\* Dictionaries handed to _calculate_data_integrity.
ScoredKeys == {"state_vector", "estimated_diameter", "close_approach_data", "jpl_orbital_data"}
IntegrityInputs == {[k \in keys |-> TRUE] : keys \in SUBSET (ScoredKeys \cup {"name", "orbital_data"})}

(***************************************************************************)
(* full_analysis (app.py:71-332): resolution of the body and the lead time *)
(* derived from its first close approach.                                  *)
(***************************************************************************)
\* app.py:123-132
AnalysisKnownDates ==
  [i \in DOMAIN known_approach_dates \cup {"65803", "2065803"} |->
     IF i \in DOMAIN known_approach_dates THEN known_approach_dates[i] ELSE DidymosApproach]

\* The random draws of app.py:147, 223, 228 and 230.
AnalysisDraws ==
  [days_ahead : DaysAhead, orbital_period : {365, 1095}, short : {730, 1095}, long : {3650}]

\* app.py:120-156
NextApproach(asteroid_data, asteroid_id, today, draws) ==
  LET listed == Get(asteroid_data, "close_approach_data", <<>>)
  IN  IF asteroid_id \in DOMAIN AnalysisKnownDates
      THEN Approach(IsoDate(AnalysisKnownDates[asteroid_id]),
                    IsoDate(AnalysisKnownDates[asteroid_id]), "10.0")
      ELSE IF listed = <<>>
      THEN Approach(strftime(today + draws.days_ahead), strftime(today + draws.days_ahead), "10.0")
      ELSE listed[1]

\* app.py:186-206: the date used when the record's date cannot be parsed
FallbackDate(asteroid_id, today, draws) ==
  IF asteroid_id \in DOMAIN AnalysisKnownDates
  THEN IsoDate(AnalysisKnownDates[asteroid_id])
  ELSE strftime(today + draws.days_ahead)

\* app.py:223-230: a past date advanced by whole orbital periods
AdvancedLeadTime(lti_days, draws) ==
  LET elapsed == -lti_days
      cycles_needed == (elapsed \div draws.orbital_period) + 1
      advanced == cycles_needed * draws.orbital_period - elapsed
  IN  IF advanced < 730 THEN draws.short
      ELSE IF advanced > 3650 THEN draws.long
      ELSE advanced

\* app.py:179-235
LeadTime(asteroid_data, asteroid_id, today, draws) ==
  LET next_approach == NextApproach(asteroid_data, asteroid_id, today, draws)
      approach_date_str == IF ParsesAsDate(next_approach.close_approach_date)
                           THEN next_approach.close_approach_date
                           ELSE FallbackDate(asteroid_id, today, draws)
      lti_days == strptime(approach_date_str) - today
  IN  [approach_date |-> approach_date_str,
       lti_days |-> IF lti_days < 0
                    THEN (IF asteroid_id \in DOMAIN AnalysisKnownDates
                          THEN AnalysisKnownDates[asteroid_id] - today
                          ELSE AdvancedLeadTime(lti_days, draws))
                    ELSE IF lti_days = 0 THEN 1
                    ELSE lti_days]

\* app.py:290-328: the resolved body and the mission parameters of the
\* reply, with the tables as get_asteroid_data leaves them.
Reply(resolved, lead, asteroid_id) ==
  LET asteroid_data == resolved.record
  IN  [reply |-> [asteroid_info |-> [name |-> Get(asteroid_data, "name", <<"Asteroid ", asteroid_id>>),
                                     id |-> Get(asteroid_data, "id", asteroid_id),
                                     data_sources |-> asteroid_data.data_sources,
                                     data_integrity |-> asteroid_data.data_integrity_score],
                  mission_parameters |-> [lti_days |-> lead.lti_days,
                                          approach_date |-> lead.approach_date]],
       asteroid_data |-> asteroid_data,
       apophis_data |-> resolved.apophis_data,
       sample_asteroids |-> resolved.sample_asteroids]

\* app.py:71-332
full_analysis(asteroid_id, t, neo, jpl, lib, enh, draws) ==
  CHOOSE r \in {Reply(resolved, LeadTime(resolved.record, asteroid_id, Today(t), draws), asteroid_id) :
                  resolved \in {get_asteroid_data(asteroid_id, t, neo, jpl, lib, enh)}} : TRUE

(***************************************************************************)
(* The recalculate_trajectory endpoint (app.py:334-385).  A JSON scalar is *)
(* its JSON type and the float that float() makes of it (Str: float()      *)
(* raises ValueError or TypeError).                                        *)
(***************************************************************************)
Number(c) == [type |-> "number", c |-> c]
Text(c) == [type |-> "string", c |-> c]
Null == [type |-> "null", c |-> Str]

\* x < y on floats: every comparison with NaN is false
FLess(x, y) ==
  IF x[1] = "nan" \/ y[1] = "nan" THEN FALSE
  ELSE IF x[1] = "inf" THEN x[2] < 0 /\ ~(y[1] = "inf" /\ y[2] < 0)
  ELSE IF y[1] = "inf" THEN y[2] > 0
  ELSE x[2] * y[3] < y[2] * x[3]

\* float(value) raises
FloatRaises(value) == value.c = Str

BadRequest(message) == [status |-> 400, error |-> message, invoked |-> FALSE]

\* physics_service.py:222-233 with the float mass the endpoint hands over
\* and the default interceptor of 500 kg
EndpointDeflectedVector(sv, dv, mass) ==
  LET v == Velocity(sv)
      dv_direction == DvDirection(v, Norm(v))
      momentum_ratio == FDiv(FMul(Fin(500), EfficiencyFactor), mass)
      a == FDiv(FMul(FMul(dv, BetaFactor), momentum_ratio), Fin(1000))
  IN  Vec([i \in 1..6 |-> IF i <= 3 THEN sv.c[i]
                          ELSE FAdd(sv.c[i], FMul(dv_direction[i - 3], a))])

\* physics_service.py:209-241, called from app.py:372-374
EndpointTrajectory(sv, dv, mass, epoch, lib) ==
  IF ~AllNumbers(sv) THEN calculate_real_trajectory(sv, DefaultDays, epoch, lib)
  ELSE IF IsZero(Norm(Velocity(sv))) THEN calculate_real_trajectory(sv, DefaultDays, epoch, lib)
  ELSE calculate_real_trajectory(EndpointDeflectedVector(sv, dv, mass), DefaultDays, epoch, lib)

\* app.py:359: dv_ms passes unless dv_ms < 0 or dv_ms > 1.0
ValidDv(dv_ms) == ~(FLess(dv_ms, Fin(0)) \/ FLess(Fin(1), dv_ms))

\* app.py:366: the mass passes unless asteroid_mass_kg <= 0
ValidMass(asteroid_mass_kg) == ~(FLess(asteroid_mass_kg, Fin(0)) \/ asteroid_mass_kg = Fin(0))

\* app.py:336-385.  request is [is_json, data]; data is the parsed body.
recalculate_trajectory(request, epoch, lib) ==
  IF ~request.is_json THEN BadRequest("Request must be JSON")
  ELSE IF DOMAIN request.data = {} THEN BadRequest("Empty JSON body")
  ELSE IF "initial_state_vector" \notin DOMAIN request.data
  THEN BadRequest("Missing required parameter: initial_state_vector")
  ELSE IF "required_dv_ms" \notin DOMAIN request.data
  THEN BadRequest("Missing required parameter: required_dv_ms")
  ELSE LET state_vector == request.data.initial_state_vector
           dv_ms == request.data.required_dv_ms
           asteroid_mass_kg == request.data.asteroid_mass_kg
       IN  IF state_vector.none \/ Len(state_vector.c) # 6
           THEN BadRequest("State vector must be a list of 6 numbers")
           ELSE IF FloatRaises(dv_ms) THEN BadRequest("Invalid delta-v value")
           ELSE IF ~ValidDv(dv_ms.c) THEN BadRequest("Delta-v out of reasonable range (0-1 m/s)")
           ELSE IF FloatRaises(asteroid_mass_kg) THEN BadRequest("Invalid asteroid mass")
           ELSE IF ~ValidMass(asteroid_mass_kg.c) THEN BadRequest("Asteroid mass must be positive")
           ELSE [status |-> 200, invoked |-> TRUE,
                 safe_trajectory |-> EndpointTrajectory(state_vector, dv_ms.c, asteroid_mass_kg.c, epoch, lib),
                 deflection_parameters |-> [applied_dv_ms |-> dv_ms.c,
                                            asteroid_mass_kg |-> asteroid_mass_kg.c]]

\* Request bodies: the state vector, the delta-v and the mass of the body.
EndpointVectors == {Nominal, AtRest, NaNVec, StrVec, NoneVec, FinVec(<<1, 2, 3>>)}
EndpointDvs ==
  {Number(Fin(0)), Number(Rat(1, 2)), Number(Fin(1)), Number(Rat(-1, 10)), Number(Fin(2)),
   Number(NaN), Number(Inf), Text(NaN), Text(Rat(1, 2)), Text(Str), Null}
EndpointMasses == {Number(Fin(1000)), Number(Fin(0)), Number(Fin(-5)), Number(NaN), Text(Str)}

Body(sv, dv, mass) == [initial_state_vector |-> sv, required_dv_ms |-> dv, asteroid_mass_kg |-> mass]

\* Bodies that lack a required parameter, the empty body included.
PartialBodies ==
  {EmptyDict,
   [required_dv_ms |-> Number(Rat(1, 2))],
   [initial_state_vector |-> Nominal],
   [initial_state_vector |-> FinVec(<<1, 2, 3>>), asteroid_mass_kg |-> Number(Fin(1000))]}

(***************************************************************************)
(* get_asteroid_data calls running side by side (one Flask request thread  *)
(* each) while every upstream source fails: final_data stays empty, and    *)
(* the call goes through _enhance_with_sample_data statement by statement. *)
(* A call holds its sample record by reference: the name of the table      *)
(* object whose close_approach_data list the record shares.                *)
(***************************************************************************)
Threads == 1..MaxThreads

NoCall == [pc |-> "idle", asteroid_id |-> "", sample_data |-> "", approach_date_str |-> IsoDate(0)]

\* The table object behind a reference.
Deref(key) == IF key = "apophis_data" THEN apophis_data ELSE sample_asteroids[key]

\* horizons_service.py:333-334: one item assignment on the shared list entry
Assign(key, field, value) ==
  [apophis_data |-> IF key = "apophis_data"
                    THEN [apophis_data EXCEPT !.close_approach_data[1][field] = value]
                    ELSE apophis_data,
   sample_asteroids |-> IF key = "apophis_data" THEN sample_asteroids
                        ELSE [sample_asteroids EXCEPT ![key].close_approach_data[1][field] = value]]

\* horizons_service.py:337-345, 88-93: the record the caller holds, read
\* through the list it shares with the table.
Held(call) ==
  Put(Put(Deref(call.sample_data), "state_vector", GenericOrbit),
      "data_sources", <<"Enhanced_Sample_Data">>)

Idle == [none |-> TRUE]

Init ==
  /\ pc = "idle"
  /\ now = 0
  /\ op = "none"
  /\ args = Idle
  /\ ret = <<>>
  /\ obs = Idle
  /\ MISSION_PLANNER_MODEL = NotImported
  /\ apophis_data = ApophisData
  /\ sample_asteroids = SampleAsteroids
  /\ calls = [t \in Threads |-> NoCall]

Call_calculate_real_trajectory ==
  /\ pc = "idle"
  /\ \E sv \in StateVectors, days \in Horizons, lib \in LibOutcomes :
       /\ op' = "calculate_real_trajectory"
       /\ args' = [state_vector |-> sv, propagation_days |-> days]
       /\ ret' = calculate_real_trajectory(sv, days, now, lib)
       /\ obs' = [lib |-> lib]
  /\ pc' = "returned"
  /\ UNCHANGED <<now, globals, calls>>

Call_calculate_hazard_corridor ==
  /\ pc = "idle"
  /\ \E sv \in CorridorVectors, n \in 1..MaxSims, std \in UncertaintyStds :
       LET loops == ~sv.none /\ Len(sv.c) = 6 /\ AllNumbers(sv)
           drawn == loops /\ std >= 0
       IN  \E lib0 \in IF loops THEN CorridorLib ELSE {CHOOSE l \in CorridorLib : TRUE},
              rest \in IF drawn THEN [1..(n - 1) -> RunChoices]
                       ELSE {[i \in 1..(n - 1) |-> CHOOSE c \in RunChoices : TRUE]} :
             LET runs == [i \in 0..(n - 1) |->
                            IF i = 0 THEN [noise |-> CHOOSE z \in Noises : TRUE, lib |-> lib0]
                            ELSE rest[i]]
                 falls == ~sv.none /\ Len(sv.c) = 6
                          /\ (~loops \/ CorridorLoop(sv, n, std, runs, now) = <<>>)
             IN  \E fb \in IF falls THEN LibOutcomes ELSE {CHOOSE l \in LibOutcomes : TRUE} :
                   /\ op' = "calculate_hazard_corridor"
                   /\ args' = [state_vector |-> sv, num_simulations |-> n,
                               uncertainty_std |-> std]
                   /\ ret' = calculate_hazard_corridor(sv, n, std, runs, fb, now)
                   /\ obs' = [runs |-> runs, fb |-> fb, fallback |-> falls]
  /\ pc' = "returned"
  /\ UNCHANGED <<now, globals, calls>>

Call_recalculate_trajectory_with_deflection ==
  /\ pc = "idle"
  /\ \E sv \in StateVectors, dv \in DeltaVs, am \in AsteroidMasses,
        im \in InterceptorMasses, lib \in CorridorLib :
       /\ op' = "recalculate_trajectory_with_deflection"
       /\ args' = [state_vector |-> sv, dv_ms |-> dv, asteroid_mass_kg |-> am,
                   interceptor_mass_kg |-> im]
       /\ ret' = recalculate_trajectory_with_deflection(sv, dv, am, im, now, lib)
       /\ obs' = [lib |-> lib,
                  raised |-> ~sv.none /\ Len(sv.c) = 6 /\ DeflectionRaises(sv, am),
                  propagated |-> IF sv.none \/ Len(sv.c) # 6 THEN sv
                                 ELSE PropagatedVector(sv, dv, am, im)]
  /\ pc' = "returned"
  /\ UNCHANGED <<now, globals, calls>>

Call_calculate_asteroid_mass ==
  /\ pc = "idle"
  /\ \E d \in MassDiameters, t \in SpectralTypes :
       /\ op' = "calculate_asteroid_mass"
       /\ args' = [diameter_m |-> d, spectral_type |-> t]
       /\ ret' = calculate_asteroid_mass(d, t)
       /\ obs' = Idle
  /\ pc' = "returned"
  /\ UNCHANGED <<now, globals, calls>>

Call_calculate_required_delta_v ==
  /\ pc = "idle"
  /\ \E m \in DvMasses, days \in ImpactDays, miss \in MissDistancesKm :
       /\ op' = "calculate_required_delta_v"
       /\ args' = [asteroid_mass_kg |-> m, time_to_impact_days |-> days,
                   desired_miss_distance_km |-> miss]
       /\ ret' = calculate_required_delta_v(m, days, miss)
       /\ obs' = [raised |-> DeltaVRaises(days)]
  /\ pc' = "returned"
  /\ UNCHANGED <<now, globals, calls>>

Call_predict_consequences_with_physics ==
  /\ pc = "idle"
  /\ MISSION_PLANNER_MODEL # NotImported
  /\ \E d \in Diameters, v \in Velocities, p \in PopulationDensities,
        o \in BOOLEAN, t \in SpectralTypes :
       /\ op' = "predict_consequences_with_physics"
       /\ args' = [diameter_m |-> d, velocity_kms |-> v, population_density |-> p,
                   is_oceanic |-> o, spectral_type |-> t]
       /\ ret' = predict_consequences_with_physics(d, v, p, o, t)
       /\ obs' = [raised |-> PhysicsRaises(d, v, t)]
  /\ pc' = "returned"
  /\ UNCHANGED <<now, globals, calls>>

Call_predict_consequences_with_ai ==
  /\ pc = "idle"
  /\ MISSION_PLANNER_MODEL # NotImported
  /\ \E d \in MassDiameters, v \in Velocities, p \in PopulationDensities, o \in BOOLEAN :
       /\ op' = "predict_consequences_with_ai"
       /\ args' = [diameter_m |-> d, velocity_kms |-> v, population_density |-> p,
                   is_oceanic |-> o]
       /\ ret' = predict_consequences_with_ai(d, v, p, o)
       /\ obs' = [raised |-> ~calculate_ai_enhancement(d, v, p).finite,
                  physics_raised |-> PhysicsRaises(d, v, "S")]
  /\ pc' = "returned"
  /\ UNCHANGED <<now, globals, calls>>

\* ml_service.py:14-23, run when the module is imported
Import_ml_service ==
  /\ pc = "idle"
  /\ MISSION_PLANNER_MODEL = NotImported
  /\ \E artifacts \in ArtifactSets :
       /\ MISSION_PLANNER_MODEL' = LoadModel(artifacts)
       /\ args' = [artifacts |-> artifacts]
  /\ op' = "import ml_service"
  /\ ret' = <<>>
  /\ obs' = Idle
  /\ pc' = "returned"
  /\ UNCHANGED <<now, apophis_data, sample_asteroids, calls>>

Call_recommend_mission_plan_with_ai ==
  /\ pc = "idle"
  /\ MISSION_PLANNER_MODEL # NotImported
  /\ \E lti \in LeadTimes, dv \in RequiredDvs, m \in MassesKg, d \in Diameters,
        clf \in IF MISSION_PLANNER_MODEL = None THEN {CHOOSE c \in ClassifierOutcomes : TRUE}
                ELSE ClassifierOutcomes :
       /\ op' = "recommend_mission_plan_with_ai"
       /\ args' = [lti_days |-> lti, delta_v |-> dv, asteroid_mass_kg |-> m,
                   asteroid_diameter_m |-> d]
       /\ ret' = recommend_mission_plan_with_ai(MISSION_PLANNER_MODEL, lti, dv, m, d, clf)
       /\ obs' = [clf |-> clf,
                  raised |-> MISSION_PLANNER_MODEL # None /\ ClassifierRaises(m, clf)]
  /\ pc' = "returned"
  /\ UNCHANGED <<now, globals, calls>>

Call__calculate_data_integrity ==
  /\ pc = "idle"
  /\ \E data \in IntegrityInputs :
       /\ op' = "_calculate_data_integrity"
       /\ args' = [data |-> data]
       /\ ret' = _calculate_data_integrity(data)
       /\ obs' = Idle
  /\ pc' = "returned"
  /\ UNCHANGED <<now, globals, calls>>

\* The draws of _enhance_with_sample_data that the call can observe.
EnhanceChoices(asteroid_id, enhances) ==
  IF ~enhances THEN {CHOOSE e \in EnhanceOutcomes : TRUE}
  ELSE IF asteroid_id \in DOMAIN known_approach_dates
  THEN {e \in EnhanceOutcomes : e.days_ahead = (CHOOSE e2 \in EnhanceOutcomes : TRUE).days_ahead}
  ELSE EnhanceOutcomes

Call_get_asteroid_data ==
  /\ pc = "idle"
  /\ \E id \in AsteroidIds, jpl \in SmallBodyOutcomes, lib \in HorizonsOutcomes :
       \E neo \in NeoOutcomes(id) :
         \E enh \in EnhanceChoices(id, ~_has_required_data(Merged(id, now, neo, jpl, lib).final_data)) :
           \E result \in {get_asteroid_data(id, now, neo, jpl, lib, enh)} :
               /\ op' = "get_asteroid_data"
               /\ args' = [asteroid_id |-> id]
               /\ ret' = result.record
               /\ obs' = [neo |-> neo, jpl |-> jpl, horizons |-> lib, enh |-> enh,
                          queried |-> result.queried, enhances |-> result.enhances]
               /\ apophis_data' = result.apophis_data
               /\ sample_asteroids' = result.sample_asteroids
  /\ pc' = "returned"
  /\ UNCHANGED <<now, MISSION_PLANNER_MODEL, calls>>

\* The draws of full_analysis that the call can observe.
AnalysisChoices(asteroid_id, asteroid_data, today) ==
  LET any == CHOOSE d \in AnalysisDraws : TRUE
      approach == NextApproach(asteroid_data, asteroid_id, today, any)
      dated == Get(asteroid_data, "close_approach_data", <<>>) # <<>>
               /\ ParsesAsDate(approach.close_approach_date)
      past == dated /\ strptime(approach.close_approach_date) < today
  IN  IF asteroid_id \in DOMAIN AnalysisKnownDates THEN {any}
      ELSE {d \in AnalysisDraws :
              /\ dated => d.days_ahead = any.days_ahead
              /\ ~past => d.orbital_period = any.orbital_period /\ d.short = any.short}

\* The upstream outcomes that change what full_analysis derives.
AnalysisNeoOutcomes(asteroid_id) ==
  {neo \in NeoOutcomes(asteroid_id) :
     neo.kind = "none" \/ "estimated_diameter" \in DOMAIN neo.value}
  \cup {Outcome("dict", NeoRecord(asteroid_id, <<ClockApproach>>))}

AnalysisSmallBodyOutcomes == {jpl \in SmallBodyOutcomes : jpl.kind = "none"}

AnalysisHorizonsOutcomes == {lib \in HorizonsOutcomes : AllFinite(Vec(<<lib.value.x>>))}

Call_full_analysis ==
  /\ pc = "idle"
  /\ MISSION_PLANNER_MODEL # NotImported
  /\ \E id \in AsteroidIds, jpl \in AnalysisSmallBodyOutcomes, lib \in AnalysisHorizonsOutcomes :
       \E neo \in AnalysisNeoOutcomes(id) :
         \E enh \in EnhanceChoices(id, ~_has_required_data(Merged(id, now, neo, jpl, lib).final_data)) :
           \E draws \in AnalysisChoices(id, get_asteroid_data(id, now, neo, jpl, lib, enh).record, Today(now)) :
             \E result \in {full_analysis(id, now, neo, jpl, lib, enh, draws)} :
                 /\ op' = "full_analysis"
                 /\ args' = [asteroid_id |-> id]
                 /\ ret' = result.reply
                 /\ obs' = [neo |-> neo, jpl |-> jpl, horizons |-> lib, enh |-> enh,
                            draws |-> draws, asteroid_data |-> result.asteroid_data]
                 /\ apophis_data' = result.apophis_data
                 /\ sample_asteroids' = result.sample_asteroids
  /\ pc' = "returned"
  /\ UNCHANGED <<now, MISSION_PLANNER_MODEL, calls>>

Call_recalculate_trajectory ==
  /\ pc = "idle"
  /\ \E is_json \in BOOLEAN, full \in BOOLEAN :
       \E data \in IF ~is_json THEN {EmptyDict}
                   ELSE IF ~full THEN PartialBodies
                   ELSE {Body(sv, dv, mass) : sv \in EndpointVectors, dv \in EndpointDvs,
                                              mass \in EndpointMasses} :
         \E request \in {[is_json |-> is_json, data |-> data]} :
           \E lib \in IF recalculate_trajectory(request, now, CHOOSE l \in CorridorLib : TRUE).invoked
                      THEN CorridorLib ELSE {CHOOSE l \in CorridorLib : TRUE} :
             /\ op' = "recalculate_trajectory"
             /\ args' = request
             /\ ret' = recalculate_trajectory(request, now, lib)
             /\ obs' = [lib |-> lib]
  /\ pc' = "returned"
  /\ UNCHANGED <<now, globals, calls>>

\* horizons_service.py:33-88, 306-329: the upstream steps fail, the sample
\* record is fetched and the call works out its own approach date.
Enter_get_asteroid_data(t) ==
  /\ calls[t].pc = "idle"
  /\ \E id \in AsteroidIds, days_ahead \in DaysAhead :
       /\ \A u \in Threads : calls[u].pc # "idle" => calls[u].asteroid_id # id
       /\ id \in DOMAIN known_approach_dates => days_ahead = CHOOSE d \in DaysAhead : TRUE
       /\ calls' = [calls EXCEPT ![t] = [pc |-> "line 333", asteroid_id |-> id,
                                         sample_data |-> SampleKey(id),
                                         approach_date_str |-> ApproachDateStr(id, Today(now), days_ahead)]]
  /\ UNCHANGED <<pc, now, op, args, ret, obs, globals>>

\* horizons_service.py:333
Override_close_approach_date(t) ==
  /\ calls[t].pc = "line 333"
  /\ \E tables \in {Assign(calls[t].sample_data, "close_approach_date", calls[t].approach_date_str)} :
       /\ apophis_data' = tables.apophis_data
       /\ sample_asteroids' = tables.sample_asteroids
  /\ calls' = [calls EXCEPT ![t].pc = "line 334"]
  /\ UNCHANGED <<pc, now, op, args, ret, obs, MISSION_PLANNER_MODEL>>

\* horizons_service.py:334
Override_close_approach_date_full(t) ==
  /\ calls[t].pc = "line 334"
  /\ \E tables \in {Assign(calls[t].sample_data, "close_approach_date_full", calls[t].approach_date_str)} :
       /\ apophis_data' = tables.apophis_data
       /\ sample_asteroids' = tables.sample_asteroids
  /\ calls' = [calls EXCEPT ![t].pc = "line 337"]
  /\ UNCHANGED <<pc, now, op, args, ret, obs, MISSION_PLANNER_MODEL>>

\* horizons_service.py:337-345, 88-96: the record is handed to the caller
Leave_get_asteroid_data(t) ==
  /\ calls[t].pc = "line 337"
  /\ calls' = [calls EXCEPT ![t].pc = "returned"]
  /\ UNCHANGED <<pc, now, op, args, ret, obs, globals>>

\* The caller is done with the record it was handed.
Drop_record(t) ==
  /\ calls[t].pc = "returned"
  /\ calls' = [calls EXCEPT ![t] = NoCall]
  /\ UNCHANGED <<pc, now, op, args, ret, obs, globals>>

Return ==
  /\ pc = "returned"
  /\ pc' = "idle"
  /\ op' = "none"
  /\ args' = Idle
  /\ ret' = <<>>
  /\ obs' = Idle
  /\ UNCHANGED <<now, globals, calls>>

Tick ==
  /\ pc = "idle"
  /\ now < MaxTime
  /\ now' = now + 1
  /\ UNCHANGED <<pc, op, args, ret, obs, globals, calls>>

Next ==
  \/ Call_calculate_real_trajectory
  \/ Call_calculate_hazard_corridor
  \/ Call_recalculate_trajectory_with_deflection
  \/ Call_calculate_asteroid_mass
  \/ Call_calculate_required_delta_v
  \/ Call_predict_consequences_with_physics
  \/ Call_predict_consequences_with_ai
  \/ Import_ml_service
  \/ Call_recommend_mission_plan_with_ai
  \/ Call__calculate_data_integrity
  \/ Call_get_asteroid_data
  \/ Call_full_analysis
  \/ Call_recalculate_trajectory
  \/ \E t \in Threads : Enter_get_asteroid_data(t)
  \/ \E t \in Threads : Override_close_approach_date(t)
  \/ \E t \in Threads : Override_close_approach_date_full(t)
  \/ \E t \in Threads : Leave_get_asteroid_data(t)
  \/ \E t \in Threads : Drop_record(t)
  \/ Return
  \/ Tick

Spec == Init /\ [][Next]_vars

\* The propagator alone.
NextPropagator == Call_calculate_real_trajectory \/ Return \/ Tick
SpecPropagator == Init /\ [][NextPropagator]_vars

\* The hazard corridor simulator alone.
NextCorridor == Call_calculate_hazard_corridor \/ Return \/ Tick
SpecCorridor == Init /\ [][NextCorridor]_vars

\* The deflection model alone.
NextDeflection == Call_recalculate_trajectory_with_deflection \/ Return \/ Tick
SpecDeflection == Init /\ [][NextDeflection]_vars

\* Mass and consequence prediction alone.
NextConsequence ==
  \/ Import_ml_service
  \/ Call_calculate_asteroid_mass
  \/ Call_predict_consequences_with_physics
  \/ Call_predict_consequences_with_ai
  \/ Return
  \/ Tick
SpecConsequence == Init /\ [][NextConsequence]_vars

\* The mission recommender alone.
NextMission == Import_ml_service \/ Call_recommend_mission_plan_with_ai \/ Return \/ Tick
SpecMission == Init /\ [][NextMission]_vars

\* The resolver alone.
NextResolver == Call_get_asteroid_data \/ Call__calculate_data_integrity \/ Return \/ Tick
SpecResolver == Init /\ [][NextResolver]_vars

\* The analysis endpoint alone.
NextAnalysis == Import_ml_service \/ Call_full_analysis \/ Return \/ Tick
SpecAnalysis == Init /\ [][NextAnalysis]_vars

\* The propagator and the corridor simulator: the nominal propagations.
NextNominal ==
  \/ Call_calculate_real_trajectory
  \/ Call_calculate_hazard_corridor
  \/ Return
  \/ Tick
SpecNominal == Init /\ [][NextNominal]_vars

\* The recalculate_trajectory endpoint alone.
NextEndpoint == Call_recalculate_trajectory \/ Return \/ Tick
SpecEndpoint == Init /\ [][NextEndpoint]_vars

\* Mass and required delta-v alone.
NextSizing == Call_calculate_asteroid_mass \/ Call_calculate_required_delta_v \/ Return \/ Tick
SpecSizing == Init /\ [][NextSizing]_vars

\* get_asteroid_data calls side by side, every upstream source failing.
NextConcurrent ==
  \/ \E t \in Threads : Enter_get_asteroid_data(t)
  \/ \E t \in Threads : Override_close_approach_date(t)
  \/ \E t \in Threads : Override_close_approach_date_full(t)
  \/ \E t \in Threads : Leave_get_asteroid_data(t)
  \/ \E t \in Threads : Drop_record(t)
  \/ Tick
SpecConcurrent == Init /\ [][NextConcurrent]_vars

(***************************************************************************)
(* Trajectory propagator.                                                  *)
(***************************************************************************)
IsCRT == pc = "returned" /\ op = "calculate_real_trajectory"

Malformed(sv) == sv.none \/ Len(sv.c) # 6

WellFormedPoints(trajectory) == \A j \in 1..Len(trajectory) : Len(trajectory[j]) = 3

\* C1: calculate_real_trajectory returns the empty list for a state vector
\* that is None or whose length is not 6, whatever the horizon.
C1_MalformedGivesEmpty ==
  IsCRT /\ Malformed(args.state_vector) => ret = <<>>

C1_Witness ==
  /\ IsCRT
  /\ args.state_vector = FinVec(<<1, 2, 3>>)
  /\ args.propagation_days = 0
  /\ ret = <<>>

\* C2: for every 6-component vector of finite components the returned
\* sequence is non-empty and every point has exactly 3 coordinates.
C2_FiniteGivesNonEmpty ==
  IsCRT /\ ~Malformed(args.state_vector) /\ AllFinite(args.state_vector)
    => ret # <<>> /\ WellFormedPoints(ret)

\* C3: a 6-component vector with a NaN or infinite component gives the
\* empty sequence, never a fallback trajectory.
C3_NonFiniteGivesEmpty ==
  IsCRT /\ ~Malformed(args.state_vector) /\ AllNumbers(args.state_vector)
        /\ ~AllFinite(args.state_vector)
    => ret = <<>>

(***************************************************************************)
(* Hazard corridor simulator.                                              *)
(***************************************************************************)
IsHC == pc = "returned" /\ op = "calculate_hazard_corridor"

\* C4: for a 6-component vector and N >= 1 simulations the corridor holds
\* at least 1 and at most N trajectories, whichever runs fail or are discarded.
C4_CorridorSize ==
  IsHC /\ ~Malformed(args.state_vector) /\ args.num_simulations >= 1
    => Len(ret) >= 1 /\ Len(ret) <= args.num_simulations

\* Every run of a 3-run corridor was discarded or raised: the fallback member alone.
C4_Witness ==
  /\ IsHC
  /\ args.state_vector = Nominal
  /\ args.num_simulations = 3
  /\ obs.fallback
  /\ Len(ret) = 1

\* C5: member 0 of a non-empty corridor is the propagation of the
\* unperturbed input vector over the 180-day reference horizon.
C5_MemberZeroIsNominal ==
  IsHC /\ ret # <<>>
    => \E lib \in LibOutcomes :
         ret[1] = calculate_real_trajectory(args.state_vector, NominalDays, now, lib)

(***************************************************************************)
(* Deflection model.                                                       *)
(***************************************************************************)
IsDeflection == pc = "returned" /\ op = "recalculate_trajectory_with_deflection"

ZeroVelocity(sv) == AllNumbers(sv) /\ IsZero(Norm(Velocity(sv)))

Less(x, y) == x[2] * y[3] < y[2] * x[3]

Dot(v, w) == FAdd(FAdd(FMul(v[1], w[1]), FMul(v[2], w[2])), FMul(v[3], w[3]))

Cross(v, w) ==
  <<FAdd(FMul(v[2], w[3]), FNeg(FMul(v[3], w[2]))),
    FAdd(FMul(v[3], w[1]), FNeg(FMul(v[1], w[3]))),
    FAdd(FMul(v[1], w[2]), FNeg(FMul(v[2], w[1])))>>

Collinear(v, w) == \A i \in 1..3 : IsZero(Cross(v, w)[i])

\* The same unit vector: parallel and pointing the same way.
SameDirection(v, w) == Collinear(v, w) /\ Less(Fin(0), Dot(v, w))

\* The case of C7: a finite vector with non-zero velocity, delta-v > 0 and
\* positive masses.
DeflectionApplies ==
  /\ IsDeflection
  /\ ~Malformed(args.state_vector)
  /\ AllFinite(args.state_vector)
  /\ ~ZeroVelocity(args.state_vector)
  /\ Less(Fin(0), args.dv_ms)
  /\ args.asteroid_mass_kg > 0
  /\ args.interceptor_mass_kg > 0

EffectiveDv == ActualDvKms(args.dv_ms, args.asteroid_mass_kg, args.interceptor_mass_kg)

\* C7 as stated: the propagated initial velocity has a different direction
\* (unit vector) from the undeflected velocity.
C7_DirectionChanges ==
  DeflectionApplies
    => ~SameDirection(Velocity(args.state_vector), Velocity(obs.propagated))

\* C7 as amended: the propagated initial velocity stays on the line of the
\* undeflected velocity; it keeps its direction while the effective delta-v
\* is below the speed, vanishes when they are equal and is reversed above it.
C7_DeflectionAlongVelocity ==
  DeflectionApplies
    => LET v == Velocity(args.state_vector)
           w == Velocity(obs.propagated)
           speed == Norm(v)
       IN  /\ Collinear(v, w)
           /\ Less(EffectiveDv, speed) => SameDirection(v, w) /\ w # v
           /\ EffectiveDv = speed => \A i \in 1..3 : IsZero(w[i])
           /\ Less(speed, EffectiveDv) => Less(Dot(v, w), Fin(0))

\* A small retrograde push: slower, same direction.
C7_Witness ==
  /\ DeflectionApplies
  /\ args.state_vector = Oblique
  /\ Less(EffectiveDv, Norm(Velocity(args.state_vector)))
  /\ SameDirection(Velocity(args.state_vector), Velocity(obs.propagated))
  /\ Velocity(obs.propagated) # Velocity(args.state_vector)

(***************************************************************************)
(* Mass and consequence predictor.                                         *)
(***************************************************************************)
IsMass == pc = "returned" /\ op = "calculate_asteroid_mass"
IsPhysics == pc = "returned" /\ op = "predict_consequences_with_physics"
IsAI == pc = "returned" /\ op = "predict_consequences_with_ai"

\* C8: for a diameter d > 0 the masses order as M > S > C > 0, and a
\* spectral type absent from the density table is given the density 2000.
C8_MassOrdering ==
  IsMass /\ args.diameter_m > 0
    => LET d == args.diameter_m
           t == args.spectral_type
       IN  /\ DLess(DZero, ret)
           /\ t = "M" => DLess(calculate_asteroid_mass(d, "S"), ret)
           /\ t = "S" => /\ DLess(calculate_asteroid_mass(d, "C"), ret)
                         /\ DLess(ret, calculate_asteroid_mass(d, "M"))
           /\ t = "C" => DLess(ret, calculate_asteroid_mass(d, "S"))
           /\ t \notin {"C", "S", "M"} => ret = DMul(DInt(2000), Volume(d))

\* An unlisted type at the diameter of the unit test.
C8_Witness ==
  /\ IsMass
  /\ args.diameter_m = 500
  /\ args.spectral_type = "X"
  /\ DLess(DZero, ret)
  /\ DLess(calculate_asteroid_mass(500, "C"), ret)
  /\ DLess(ret, calculate_asteroid_mass(500, "S"))

\* C9: predicted_casualties never exceeds the clamp of 5,000,000, in the
\* physics estimate and in the enhanced estimate.
C9_CasualtiesClamped ==
  IsPhysics \/ IsAI => ret.predicted_casualties <= CasualtyClamp

\* C10: when the oceanic flag is false the inundation radius is 0, in the
\* physics estimate and in the enhanced estimate, the error-default branch
\* included.
C10_LandImpactNoInundation ==
  (IsPhysics \/ IsAI) /\ ~args.is_oceanic => ret.inundation_radius_km = DZero

(***************************************************************************)
(* Mission recommender.                                                    *)
(***************************************************************************)
IsRecommend == pc = "returned" /\ op = "recommend_mission_plan_with_ai"

\* C11: with no classifier loaded, recommend_mission_plan_with_ai returns
\* source "Earth Launch Vehicle" and interceptor "Rapid Response Kinetic
\* Impactor" for every lead time below 180 days, whatever the delta-v, the
\* mass and the diameter.
C11_ShortLeadTimeIsRapidLaunch ==
  IsRecommend /\ MISSION_PLANNER_MODEL = None /\ args.lti_days < 180
    => /\ ret.source = EarthLaunchVehicle
       /\ ret.interceptor_type = RapidResponseKineticImpactor

\* A short lead time with a mass and a delta-v that the later rules of the
\* ladder would have matched.
C11_Witness ==
  /\ IsRecommend
  /\ MISSION_PLANNER_MODEL = None
  /\ args.lti_days = 179
  /\ DLess(LargeMassKg, args.asteroid_mass_kg)
  /\ DLess(HighDeltaV, args.delta_v)
  /\ ret.source = EarthLaunchVehicle
  /\ ret.interceptor_type = RapidResponseKineticImpactor

(***************************************************************************)
(* Resolver.                                                               *)
(***************************************************************************)
IsIntegrity == pc = "returned" /\ op = "_calculate_data_integrity"

IsResolve == pc = "returned" /\ op = "get_asteroid_data"

Present(data, key) == IF key \in DOMAIN data THEN 1 ELSE 0

AdditiveScore(data) ==
  40 * Present(data, "state_vector") + 30 * Present(data, "estimated_diameter")
    + 20 * Present(data, "close_approach_data") + 10 * Present(data, "jpl_orbital_data")

\* C12: _calculate_data_integrity returns min(100, 40 for the state vector
\* + 30 for the diameter + 20 for the close-approach data + 10 for the JPL
\* orbital data); the score lies in 0..100 and does not decrease when a
\* field is added to the record.
C12_IntegrityIsAdditive ==
  IsIntegrity
    => /\ ret = (IF AdditiveScore(args.data) < 100 THEN AdditiveScore(args.data) ELSE 100)
       /\ ret \in 0..100
       /\ \A key \in ScoredKeys \cup {"name"} :
            _calculate_data_integrity(Put(args.data, key, TRUE)) >= ret

\* A record holding the state vector and the JPL orbital data only.
C12_Witness ==
  /\ IsIntegrity
  /\ DOMAIN args.data \cap ScoredKeys = {"state_vector", "jpl_orbital_data"}
  /\ ret = 50

\* The ephemeris record of the call, as get_asteroid_data received it.
HorizonsData == get_horizons_data(args.asteroid_id, now, obs.horizons)

AllUpstreamFail == ~Truthy(obs.neo) /\ ~Truthy(obs.jpl) /\ ~Truthy(HorizonsData)

Range(s) == {s[i] : i \in 1..Len(s)}

\* C13: get_asteroid_data("99942") with all three upstream sources failing
\* returns a record with a name, a 6-component state vector and an
\* integrity score of 100.
C13_TotalFailureScoresFull ==
  IsResolve /\ args.asteroid_id = "99942" /\ AllUpstreamFail
    => /\ "name" \in DOMAIN ret
       /\ Len(ret.state_vector.c) = 6
       /\ ret.data_integrity_score = 100

IsAnalysis == pc = "returned" /\ op = "full_analysis"

\* C14: for every identifier and call time, the close-approach date that
\* resolution produces is not earlier than the date of the call, and the
\* lead time that full_analysis derives from it is at least 1 day.
C14_ApproachNotInPast ==
  IsAnalysis
    => /\ strptime(ret.mission_parameters.approach_date) >= Today(now)
       /\ ret.mission_parameters.lti_days >= 1
       /\ \A i \in 1..Len(obs.asteroid_data.close_approach_data) :
            i = 1 => strptime(obs.asteroid_data.close_approach_data[i].close_approach_date) >= Today(now)

\* C15: whatever the three upstream sources do, the record returned by
\* get_asteroid_data holds a diameter, a close_approach_data list with at
\* least one entry and a state vector with exactly 6 components.
C15_RecordIsWellFormed ==
  IsResolve
    => /\ "estimated_diameter" \in DOMAIN ret
       /\ "close_approach_data" \in DOMAIN ret
       /\ Len(ret.close_approach_data) >= 1
       /\ "state_vector" \in DOMAIN ret
       /\ Len(ret.state_vector.c) = 6

\* Identifiers with an entry in the reference tables.
TableIds == {"99942"} \cup DOMAIN SampleAsteroids

\* C16: when required fields are missing after merging and the identifier
\* has no entry in the reference tables, the resolver returns a placeholder
\* for that identifier and not the canned record of another body; when
\* every upstream source fails the record is the minimal one tagged
\* "Emergency_Fallback".
C16_PlaceholderForUnknownBody ==
  /\ IsResolve /\ obs.enhances /\ args.asteroid_id \notin TableIds
       => ret.id # ApophisData.id /\ ret.name # ApophisData.name
  /\ IsResolve /\ AllUpstreamFail
       => "data_source" \in DOMAIN ret /\ ret.data_source = "Emergency_Fallback"

\* C17: in get_asteroid_data every available source is queried whatever
\* the earlier sources did, the call returns a record, and data_sources
\* holds a source's tag exactly when that source's payload was merged.
C17_SourcesAreIndependent ==
  IsResolve
    => /\ obs.neo.kind # "unavailable" => "NASA_NEO_WS" \in Range(obs.queried)
       /\ obs.jpl.kind # "unavailable" => "JPL_SmallBody_DB" \in Range(obs.queried)
       /\ "JPL_Horizons" \in Range(obs.queried)
       /\ "data_sources" \in DOMAIN ret
       /\ "NASA_NEO_WS" \in Range(ret.data_sources)
            <=> Truthy(obs.neo) /\ "id" \in DOMAIN obs.neo.value
       /\ "JPL_SmallBody_DB" \in Range(ret.data_sources) <=> Truthy(obs.jpl)
       /\ "JPL_Horizons" \in Range(ret.data_sources) <=> Truthy(HorizonsData)
       /\ ~(obs.enhances /\ obs.enh.raises)
            => /\ Truthy(obs.jpl) <=> "jpl_orbital_data" \in DOMAIN ret
               /\ Truthy(HorizonsData) <=> "ephemeris_quality" \in DOMAIN ret

\* The first source raises and the two others are still merged.
C17_Witness ==
  /\ IsResolve
  /\ obs.neo.kind = "raises"
  /\ ret.data_sources = <<"JPL_SmallBody_DB", "JPL_Horizons", "Enhanced_Sample_Data">>
  /\ ret.jpl_orbital_data = obs.jpl.value
  /\ ret.state_vector = HorizonsData.value.state_vector

\* C18: whenever get_horizons_data succeeds, the state vector of the
\* returned record is the ephemeris-derived one, whatever the earlier
\* sources supplied and whether or not the sample-data step runs or fails.
C18_EphemerisVectorWins ==
  IsResolve /\ Truthy(HorizonsData)
    => ret.state_vector = HorizonsData.value.state_vector

IsImport == pc = "returned" /\ op = "import ml_service"

\* C19: with the classifier artifact absent the import of ml_service
\* completes with MISSION_PLANNER_MODEL = None; and whenever the classifier
\* is absent or a step of the classifier path raises,
\* recommend_mission_plan_with_ai returns what
\* get_physics_based_recommendation returns for the same inputs.
C19_FallsBackToRuleLadder ==
  /\ IsImport /\ ModelArtifact \notin args.artifacts => MISSION_PLANNER_MODEL = None
  /\ IsRecommend /\ (MISSION_PLANNER_MODEL = None \/ obs.raised)
       => ret = get_physics_based_recommendation(args.lti_days, args.delta_v,
                                                 args.asteroid_mass_kg, args.asteroid_diameter_m)

\* The classifier is loaded and predict_proba raises.
C19_Witness ==
  /\ IsRecommend
  /\ MISSION_PLANNER_MODEL = RandomForest
  /\ obs.clf.raisesAt = "predict_proba"
  /\ args.lti_days = 730
  /\ ret.model_type = "physics_fallback"
  /\ ret.interceptor_type = NuclearDisruptionDevice

\* C20: no sequence of get_asteroid_data calls changes apophis_data or
\* sample_asteroids, their nested close_approach_data entries included.
C20_TablesAreReadOnly ==
  apophis_data = ApophisData /\ sample_asteroids = SampleAsteroids

(***************************************************************************)
(* Calls side by side.                                                     *)
(***************************************************************************)
HeldDate(call) == Held(call).close_approach_data[1].close_approach_date

\* C21: with every upstream source failing, the record a get_asteroid_data
\* call has returned carries the close-approach date that call worked out
\* for its own identifier, at its return and for as long as the caller
\* holds it, whatever other calls for other identifiers do meanwhile.
C21_CallsAreIsolated ==
  \A t \in Threads : calls[t].pc = "returned" => HeldDate(calls[t]) = calls[t].approach_date_str

(***************************************************************************)
(* Sizing: mass and required delta-v.                                      *)
(***************************************************************************)
IsDeltaV == pc = "returned" /\ op = "calculate_required_delta_v"

\* C22: calculate_required_delta_v returns exactly the minimum practical
\* delta-v 0.0001 whenever the lead time is zero, and whenever the mass, the
\* lead time and the miss distance are all negative.
C22_InvalidInputsGiveMinimum ==
  IsDeltaV /\ (\/ args.time_to_impact_days = 0
               \/ /\ DLess(args.asteroid_mass_kg, DZero)
                  /\ args.time_to_impact_days < 0
                  /\ args.desired_miss_distance_km < 0)
    => ret = MinPracticalDv

\* C23: calculate_asteroid_mass returns a strictly positive mass for a
\* negative diameter, for every spectral type.
C23_NegativeDiameterGivesPositiveMass ==
  IsMass /\ args.diameter_m < 0 => DLess(DZero, ret)

(***************************************************************************)
(* recalculate_trajectory endpoint.                                        *)
(***************************************************************************)
IsEndpoint == pc = "returned" /\ op = "recalculate_trajectory"

\* A request body that names the vector, the delta-v and the mass.
FullBody ==
  args.is_json /\ {"initial_state_vector", "required_dv_ms", "asteroid_mass_kg"} \subseteq DOMAIN args.data

\* The value is a finite number of the interval [lo, hi].
InRange(value, lo, hi) == IsFinite(value.c) /\ ~FLess(value.c, lo) /\ ~FLess(hi, value.c)

PositiveNumber(value) == IsFinite(value.c) /\ FLess(Fin(0), value.c)

\* C24: a request whose state vector is not a list of exactly 6 components,
\* whose delta-v is not a number in [0, 1] or whose mass is not a positive
\* number is answered with status 400 and the deflection model is not
\* called; a request that is let through carries a 6-component vector of
\* finite numbers and a finite delta-v.
C24_BoundaryValidates ==
  IsEndpoint /\ FullBody
    => /\ (\/ Malformed(args.data.initial_state_vector)
           \/ ~InRange(args.data.required_dv_ms, Fin(0), Fin(1))
           \/ ~PositiveNumber(args.data.asteroid_mass_kg))
          => ret.status = 400 /\ ~ret.invoked
       /\ ret.invoked
          => /\ ~Malformed(args.data.initial_state_vector)
             /\ AllFinite(args.data.initial_state_vector)
             /\ IsFinite(ret.deflection_parameters.applied_dv_ms)

(***************************************************************************)
(* Reproducibility of the nominal propagation.                             *)
(***************************************************************************)
CallTimes == 0..MaxTime

\* C25: for a fixed state vector and horizon, calculate_real_trajectory
\* returns the same position sequence whatever the time of the call, and so
\* does member 0 of a corridor: the value returned now is the value the same
\* call, with the same library outcomes, returns at every other call time.
C25_NominalIsReproducible ==
  /\ IsCRT => \A t \in CallTimes :
                ret = calculate_real_trajectory(args.state_vector, args.propagation_days, t, obs.lib)
  /\ IsHC /\ ret # <<>>
       => \A t \in CallTimes :
            LET again == calculate_hazard_corridor(args.state_vector, args.num_simulations,
                                                   args.uncertainty_std, obs.runs, obs.fb, t)
            IN  again # <<>> /\ ret[1] = again[1]

(***************************************************************************)
(* Rule ladder.                                                            *)
(***************************************************************************)
\* The call was answered by get_physics_based_recommendation.
ByLadder == IsRecommend /\ (MISSION_PLANNER_MODEL = None \/ obs.raised)

Chosen(architecture, interceptor, confidence) ==
  /\ ret.source = architecture
  /\ ret.interceptor_type = interceptor
  /\ ret.confidence_score = confidence

\* C26: the ladder is tried in a fixed order and is total: lead time < 180
\* gives the Earth-launch rapid kinetic impactor (75.0); otherwise mass >
\* 1e12 gives the cislunar nuclear device (88.0), also when delta-v > 0.02;
\* otherwise delta-v > 0.02 gives the Earth-launch heavy kinetic impactor
\* (82.0); otherwise the cislunar enhanced kinetic impactor (91.5).  The
\* confidence is the literal of the branch and lies within 0..100.
C26_LadderIsOrderedAndTotal ==
  ByLadder
    => LET short == args.lti_days < 180
           large == DLess(DNorm(1, 12), args.asteroid_mass_kg)
           high == DLess(DNorm(2, -2), args.delta_v)
       IN  /\ short => Chosen(EarthLaunchVehicle, RapidResponseKineticImpactor, DNorm(750, -1))
           /\ ~short /\ large => Chosen(CislunarDepot, NuclearDisruptionDevice, DNorm(880, -1))
           /\ ~short /\ ~large /\ high => Chosen(EarthLaunchVehicle, HeavyKineticImpactor, DNorm(820, -1))
           /\ ~short /\ ~large /\ ~high => Chosen(CislunarDepot, EnhancedKineticImpactor, DNorm(915, -1))
           /\ ~DLess(ret.confidence_score, DZero)
           /\ ~DLess(DInt(100), ret.confidence_score)
           /\ ret.model_type = "physics_fallback"

\* A long lead time with a mass above 1e12 kg and a delta-v above 0.02 m/s:
\* the mass rule is the one that answers.
C26_Witness ==
  /\ ByLadder
  /\ args.lti_days = 180
  /\ args.asteroid_mass_kg = DNorm(2, 12)
  /\ args.delta_v = DNorm(5, -2)
  /\ Chosen(CislunarDepot, NuclearDisruptionDevice, DNorm(880, -1))

(***************************************************************************)
(* Enhancement failure.                                                    *)
(***************************************************************************)
\* C27: when the enhancement stage of predict_consequences_with_ai fails
\* (a diameter that is not positive makes the log-scaled factor -inf or
\* NaN), the returned estimate is, field for field, the estimate of
\* predict_consequences_with_physics for the same diameter, velocity,
\* population density and oceanic flag, with no enhancement factor applied.
C27_FailureGivesPhysicsEstimate ==
  IsAI /\ obs.raised
    => /\ ret = predict_consequences_with_physics(args.diameter_m, args.velocity_kms,
                                                  args.population_density, args.is_oceanic, "S")
       /\ "ai_confidence" \notin DOMAIN ret

\* A negative diameter over a populated, oceanic site.
C27_Witness ==
  /\ IsAI
  /\ obs.raised
  /\ args.diameter_m = -100
  /\ args.velocity_kms = 20
  /\ args.population_density = 5000
  /\ args.is_oceanic
  /\ ret = PhysicsDefault

(***************************************************************************)
(* Members of the corridor.                                                *)
(***************************************************************************)
\* C28: every trajectory of a returned corridor is non-empty and made of
\* 3-coordinate points, the single-trajectory corridor returned when every
\* run failed or was discarded included.
C28_NoEmptyTrajectory ==
  IsHC => \A k \in 1..Len(ret) : ret[k] # <<>> /\ WellFormedPoints(ret[k])


\* The loop of lines 182-200 is entered: a 6-component vector numpy converts.
Loops == ~Malformed(args.state_vector) /\ AllNumbers(args.state_vector)

\* Run i neither raised nor returned 5 or fewer samples.
Survives(i) ==
  /\ ~RunRaises(i, args.uncertainty_std)
  /\ Len(RunTrajectory(args.state_vector, i, obs.runs[i], now)) > 5

Survivors == {i \in 0..(args.num_simulations - 1) : Survives(i)}

\* The place of a surviving run among the survivors, in run order.
Rank(i) == Cardinality({j \in Survivors : j <= i})

\* C29: a run whose trajectory has 5 or fewer samples, or which raises,
\* contributes nothing to the corridor: the corridor holds exactly the
\* trajectories of the surviving runs, later runs included, in run order.
\* When no run survives the corridor is the single fallback trajectory.
C29_DiscardedRunsContributeNothing ==
  IsHC /\ Loops
    => IF Survivors = {}
       THEN obs.fallback /\ Len(ret) = 1
       ELSE /\ ~obs.fallback
            /\ Len(ret) = Cardinality(Survivors)
            /\ \A i \in Survivors :
                 ret[Rank(i)] = RunTrajectory(args.state_vector, i, obs.runs[i], now)

\* Three runs: the first perturbed run stops after 5 samples and is dropped,
\* the second perturbed run is still made and kept behind the nominal one.
C29_Witness ==
  /\ IsHC
  /\ Loops
  /\ args.num_simulations = 3
  /\ args.uncertainty_std = 150
  /\ Survivors = {0, 2}
  /\ Len(RunTrajectory(args.state_vector, 1, obs.runs[1], now)) = 5
  /\ Len(ret) = 2
  /\ ret[2] = RunTrajectory(args.state_vector, 2, obs.runs[2], now)

(***************************************************************************)
(* Mission parameters of the analysis.                                     *)
(***************************************************************************)
\* C30: in every full_analysis response mission_parameters.approach_date
\* is the date of the call plus mission_parameters.lti_days days, also
\* when a past date was advanced by orbital periods and when lti_days was
\* raised from 0 to 1.
C30_DateAndLeadTimeAgree ==
  IsAnalysis
    => strptime(ret.mission_parameters.approach_date)
         = Today(now) + ret.mission_parameters.lti_days

====
